---- MODULE Spec2Model ----
(***************************************************************************)
(* Verification model of the sculpt mesh-editing engine:                   *)
(*   calculateSymmetryPoints, applyDeformation, applySculptingStroke       *)
(*     (src/services/sculpting/sculptingEngine.ts)                         *)
(*   subdivideSymmetrically (src/utils/symmetricSubdivision.ts)            *)
(*   ensureGeometrySymmetry (src/utils/ensureGeometrySymmetry.ts)          *)
(*   PrimitiveFactory.mergeVertices (services/geometry/primitiveFactory)   *)
(*                                                                         *)
(* Numbers.  The code computes on IEEE floats; the model computes on       *)
(* integers at a fixed resolution:                                         *)
(*   - a length or coordinate n stands for n * 0.0005 (so the weld         *)
(*     epsilon 0.001 is 2, the stroke's repair tolerance 0.01 is 20);      *)
(*   - a unit direction (a normal, a normalised movement) is a vector of   *)
(*     length NormScale;                                                   *)
(*   - brushStrength is given in percent.                                  *)
(* Comparisons of distances are made on squares and are exact; square      *)
(* roots and quotients are rounded as the operators below say.             *)
(* A geometry is an object on the heap; a reference is its index there.    *)
(***************************************************************************)
EXTENDS Integers, Sequences, FiniteSets, TLC

VARIABLES
  pc,      \* position of the caller: "ready" before a call, "done" after
  heap,    \* the BufferGeometry objects, by reference
  pre,     \* the heap as it was when the last call was made
  params,  \* the arguments of the operation being applied
  result,  \* the value the last call returned
  calls    \* number of calls made so far

vars == <<pc, heap, pre, params, result, calls>>

(***************************************************************************)
(* Bounds of the model                                                     *)
(***************************************************************************)
MaxCoord == 1      \* symmetry points are drawn from -MaxCoord..MaxCoord cubed
MaxCalls == 2      \* how often weld / repair are applied in a row
MaxVerts == 3      \* vertices of the meshes handed to weld and repair
MaxStrokes == 2    \* stroke results in flight for one scene object
MaxGeometries == 3 \* geometries made for one scene object
MaxChain == 6      \* triangles of the strip handed to the propagation loop
MaxVersion == 3    \* the geometry version up to which the effects are followed
MaxTris == 2       \* triangles of the strips handed to subdivision and strokes
MaxHistory == 2    \* maxHistorySize is drawn from 1..MaxHistory
MaxOps == 6        \* operations on the undo history in a row

(***************************************************************************)
(* Integer arithmetic standing for the float operations                    *)
(***************************************************************************)
Abs(x) == IF x < 0 THEN -x ELSE x

\* Math.sign on a number; -0 and 0 compare equal under !== in JavaScript.
Sign(x) == IF x > 0 THEN 1 ELSE IF x < 0 THEN -1 ELSE 0

Min(a, b) == IF a < b THEN a ELSE b
Max(a, b) == IF a < b THEN b ELSE a

\* a / b rounded toward zero (b > 0): the sign of a quotient follows its
\* numerator, as it does in IEEE arithmetic.
TruncDiv(a, b) == IF a >= 0 THEN a \div b ELSE -((-a) \div b)

\* a / b rounded to the nearest integer, halves away from zero (b > 0).
RoundDiv(a, b) == IF a >= 0 THEN (2 * a + b) \div (2 * b)
                  ELSE -((2 * (-a) + b) \div (2 * b))

\* Math.round(a / b) (b > 0): nearest integer, halves toward +infinity.
JsRound(a, b) == (2 * a + b) \div (2 * b)

RECURSIVE SqrtIter(_, _, _)
SqrtIter(n, lo, hi) ==
  IF lo >= hi THEN lo
  ELSE LET mid == (lo + hi + 1) \div 2
       IN IF mid * mid <= n THEN SqrtIter(n, mid, hi)
          ELSE SqrtIter(n, lo, mid - 1)

\* floor of the square root
ISqrt(n) == SqrtIter(n, 0, Min(n, 46340))

(***************************************************************************)
(* THREE.Vector3                                                           *)
(***************************************************************************)
Vec(x, y, z) == <<x, y, z>>
VAdd(a, b) == <<a[1] + b[1], a[2] + b[2], a[3] + b[3]>>
VSub(a, b) == <<a[1] - b[1], a[2] - b[2], a[3] - b[3]>>
VScale(a, k) == <<a[1] * k, a[2] * k, a[3] * k>>
LenSq(a) == a[1] * a[1] + a[2] * a[2] + a[3] * a[3]
DistSq(a, b) == LenSq(VSub(a, b))
VLength(a) == ISqrt(LenSq(a))
Cross(a, b) == <<a[2] * b[3] - a[3] * b[2],
                 a[3] * b[1] - a[1] * b[3],
                 a[1] * b[2] - a[2] * b[1]>>
ZeroVec == <<0, 0, 0>>

\* Length of a unit direction in the model.
NormScale == 1000

\* Vector3.normalize(): v / (|v| || 1), the zero vector staying zero.  A long
\* vector is first brought down to components of at most NormScale, so that
\* its squared length fits the integers of the checker.
Normalize(v) ==
  IF v = ZeroVec THEN ZeroVec
  ELSE LET m == Max(Abs(v[1]), Max(Abs(v[2]), Abs(v[3])))
           w == IF m > NormScale
                  THEN <<TruncDiv(v[1] * NormScale, m),
                         TruncDiv(v[2] * NormScale, m),
                         TruncDiv(v[3] * NormScale, m)>>
                  ELSE v
           l == VLength(w)
       IN IF l = 0 THEN ZeroVec
          ELSE <<RoundDiv(w[1] * NormScale, l),
                 RoundDiv(w[2] * NormScale, l),
                 RoundDiv(w[3] * NormScale, l)>>

\* the negation of the coordinates a mirror configuration names
Flip(v, config) == <<IF config.x THEN -v[1] ELSE v[1],
                     IF config.y THEN -v[2] ELSE v[2],
                     IF config.z THEN -v[3] ELSE v[3]>>

Axes(x, y, z) == [x |-> x, y |-> y, z |-> z]
AllAxes == [x : BOOLEAN, y : BOOLEAN, z : BOOLEAN]
NoAxis(a) == ~a.x /\ ~a.y /\ ~a.z
EnabledCount(a) == (IF a.x THEN 1 ELSE 0) + (IF a.y THEN 1 ELSE 0)
                   + (IF a.z THEN 1 ELSE 0)

Null == <<>>
NoHeap == <<>>

(***************************************************************************)
(* calculateSymmetryPoints  (sculptingEngine.ts 30-64)                     *)
(***************************************************************************)
\* A value computed once and then used under a name, as a const of the code
\* is.
Bind(v, F(_)) == CHOOSE y \in {F(x) : x \in {v}} : TRUE

When(c, s) == IF c THEN s ELSE <<>>

\* mutant: the pair (x, z) is pushed whenever x is enabled
mirrorConfigsPairSlip(symmetryAxes) ==
     When(symmetryAxes.x, <<Axes(TRUE, FALSE, FALSE)>>)
  \o When(symmetryAxes.y, <<Axes(FALSE, TRUE, FALSE)>>)
  \o When(symmetryAxes.z, <<Axes(FALSE, FALSE, TRUE)>>)
  \o When(symmetryAxes.x /\ symmetryAxes.y, <<Axes(TRUE, TRUE, FALSE)>>)
  \o When(symmetryAxes.x, <<Axes(TRUE, FALSE, TRUE)>>)
  \o When(symmetryAxes.y /\ symmetryAxes.z, <<Axes(FALSE, TRUE, TRUE)>>)
  \o When(symmetryAxes.x /\ symmetryAxes.y /\ symmetryAxes.z,
          <<Axes(TRUE, TRUE, TRUE)>>)

mirrorConfigs(symmetryAxes) ==
     When(symmetryAxes.x, <<Axes(TRUE, FALSE, FALSE)>>)
  \o When(symmetryAxes.y, <<Axes(FALSE, TRUE, FALSE)>>)
  \o When(symmetryAxes.z, <<Axes(FALSE, FALSE, TRUE)>>)
  \o When(symmetryAxes.x /\ symmetryAxes.y, <<Axes(TRUE, TRUE, FALSE)>>)
  \o When(symmetryAxes.x /\ symmetryAxes.z, <<Axes(TRUE, FALSE, TRUE)>>)
  \o When(symmetryAxes.y /\ symmetryAxes.z, <<Axes(FALSE, TRUE, TRUE)>>)
  \o When(symmetryAxes.x /\ symmetryAxes.y /\ symmetryAxes.z,
          <<Axes(TRUE, TRUE, TRUE)>>)

\* mutant: the early return hands back an empty list
calculateSymmetryPointsNoOriginal(localPoint, symmetryAxes) ==
  IF NoAxis(symmetryAxes) THEN <<>>
  ELSE LET configs == mirrorConfigs(symmetryAxes)
       IN <<localPoint>> \o
          [i \in 1..Len(configs) |-> Flip(localPoint, configs[i])]

calculateSymmetryPoints(localPoint, symmetryAxes) ==
  IF NoAxis(symmetryAxes) THEN <<localPoint>>
  ELSE LET configs == mirrorConfigs(symmetryAxes)
       IN <<localPoint>> \o
          [i \in 1..Len(configs) |-> Flip(localPoint, configs[i])]

(***************************************************************************)
(* SpecSym: calculateSymmetryPoints applied to every point of a small cube *)
(* and every subset of the axes.                                           *)
(***************************************************************************)
Coord == (-MaxCoord)..MaxCoord
Points == {Vec(x, y, z) : x \in Coord, y \in Coord, z \in Coord}

InitSym ==
  /\ pc = "ready"
  /\ heap = NoHeap
  /\ pre = NoHeap
  /\ params \in [localPoint : Points, symmetryAxes : AllAxes]
  /\ result = Null
  /\ calls = 0

CallCalculateSymmetryPoints ==
  /\ pc = "ready"
  /\ result' = calculateSymmetryPoints(params.localPoint, params.symmetryAxes)
  /\ pc' = "done"
  /\ calls' = calls + 1
  /\ UNCHANGED <<heap, pre, params>>

NextSym == CallCalculateSymmetryPoints

SpecSym == InitSym /\ [][NextSym]_vars

Pow2(k) == IF k = 0 THEN 1 ELSE IF k = 1 THEN 2 ELSE IF k = 2 THEN 4 ELSE 8

\* C1: calculateSymmetryPoints returns exactly 2^k points for k enabled axes,
\* and exactly [point] when no axis is enabled.
C1_SymmetryPointCount ==
  pc = "done" =>
    /\ Len(result) = Pow2(EnabledCount(params.symmetryAxes))
    /\ NoAxis(params.symmetryAxes) => result = <<params.localPoint>>

C1_Witness ==
  /\ pc = "done"
  /\ EnabledCount(params.symmetryAxes) = 2
  /\ Len(result) = 4

\* the nonempty subsets of the enabled axes
FlipSubsets(a) ==
  {c \in AllAxes : /\ ~NoAxis(c)
                   /\ (c.x => a.x) /\ (c.y => a.y) /\ (c.z => a.z)}

\* C2: the original point comes first, then exactly one point per nonempty
\* subset of the enabled axes, that subset negated; the order of the subsets
\* is the same for every point with the same axes.
C2_OriginalFirstThenEverySubset ==
  pc = "done" =>
    LET a == params.symmetryAxes
        p == params.localPoint
    IN /\ Len(result) >= 1 /\ result[1] = p
       /\ Len(result) = 1 + Cardinality(FlipSubsets(a))
       /\ \A c \in FlipSubsets(a) :
            Cardinality({i \in 2..Len(result) :
                           /\ mirrorConfigs(a)[i - 1] = c
                           /\ result[i] = Flip(p, c)}) = 1
       /\ \A q \in Points :
            LET other == calculateSymmetryPoints(q, a)
            IN /\ Len(other) = Len(result)
               /\ \A i \in 2..Len(result) :
                    \E c \in FlipSubsets(a) :
                      /\ result[i] = Flip(p, c)
                      /\ other[i] = Flip(q, c)

C2_Witness ==
  /\ pc = "done"
  /\ params.symmetryAxes = Axes(TRUE, FALSE, TRUE)
  /\ params.localPoint = Vec(1, 1, -1)
  /\ result = <<Vec(1, 1, -1), Vec(-1, 1, -1), Vec(1, 1, 1), Vec(-1, 1, 1)>>

(***************************************************************************)
(* THREE.BufferGeometry: the position attribute, the normal attribute (if  *)
(* set) and the index (if set).  Triangle indices count from 0, as in the  *)
(* code; Vertex(g, i) reads vertex i.  boundingBox and boundingSphere are  *)
(* null (isSet FALSE) until they are computed.                             *)
(***************************************************************************)
NoBoundingBox == [isSet |-> FALSE, min |-> <<0, 0, 0>>, max |-> <<0, 0, 0>>]
NoBoundingSphere == [isSet |-> FALSE, center |-> <<0, 0, 0>>, radiusSq |-> 0]

Geometry(position, normal, hasNormal, index, hasIndex) ==
  [position |-> position, normal |-> normal, hasNormal |-> hasNormal,
   index |-> index, hasIndex |-> hasIndex,
   boundingBox |-> NoBoundingBox, boundingSphere |-> NoBoundingSphere]

At(seq, i) == seq[i + 1]
PositionCount(g) == Len(g.position)
Range(s) == {s[i] : i \in DOMAIN s}

(***************************************************************************)
(* PrimitiveFactory.mergeVertices  (primitiveFactory 234-302)              *)
(***************************************************************************)
Epsilon == 2     \* const epsilon = 0.001

\* the grid cell of a vertex: `${round(x/eps)}_${round(y/eps)}_${round(z/eps)}`
CellKey(v) == <<JsRound(v[1], Epsilon), JsRound(v[2], Epsilon),
                JsRound(v[3], Epsilon)>>

\* mutant: the kept vertex is snapped down to its grid line, which may lie in
\* the cell below the one the rounded key names
RECURSIVE MergeLoopSnap(_, _, _, _, _)
MergeLoopSnap(vertices, i, vertexMap, newVertices, vertexRemap) ==
  IF i >= Len(vertices)
    THEN [newVertices |-> newVertices, vertexRemap |-> vertexRemap]
  ELSE LET v == At(vertices, i)
           key == CellKey(v)
           snapped == <<(v[1] \div Epsilon) * Epsilon,
                        (v[2] \div Epsilon) * Epsilon,
                        (v[3] \div Epsilon) * Epsilon>>
       IN IF key \in DOMAIN vertexMap
            THEN MergeLoopSnap(vertices, i + 1, vertexMap, newVertices,
                               Append(vertexRemap, vertexMap[key]))
            ELSE MergeLoopSnap(vertices, i + 1,
                               vertexMap @@ (key :> Len(newVertices)),
                               Append(newVertices, snapped),
                               Append(vertexRemap, Len(newVertices)))

\* The loop over the vertices (lines 269-280): vertexMap from cell to merged
\* index, newVertices, vertexRemap from old index to merged index.
RECURSIVE MergeLoop(_, _, _, _, _)
MergeLoop(vertices, i, vertexMap, newVertices, vertexRemap) ==
  IF i >= Len(vertices)
    THEN [newVertices |-> newVertices, vertexRemap |-> vertexRemap]
  ELSE LET v == At(vertices, i)
           key == CellKey(v)
       IN IF key \in DOMAIN vertexMap
            THEN MergeLoop(vertices, i + 1, vertexMap, newVertices,
                           Append(vertexRemap, vertexMap[key]))
            ELSE MergeLoop(vertices, i + 1,
                           vertexMap @@ (key :> Len(newVertices)),
                           Append(newVertices, v),
                           Append(vertexRemap, Len(newVertices)))

EmptyMap == [k \in {} |-> 0]

\* the sequential index a non-indexed geometry is given (lines 255-259)
SequentialIndex(n) == [k \in 1..n |-> k - 1]

\* mutant: the merged positions are installed but the index is not remapped
mergeVerticesNoRemap(g) ==
  LET vertices == g.position
      indexArray == IF g.hasIndex THEN g.index
                    ELSE SequentialIndex(Len(vertices))
      m == MergeLoop(vertices, 0, EmptyMap, <<>>, <<>>)
  IN IF Len(m.newVertices) < Len(vertices)
       THEN [g EXCEPT !.position = m.newVertices,
                      !.index = indexArray,
                      !.hasIndex = TRUE]
     ELSE IF ~g.hasIndex
       THEN [g EXCEPT !.index = indexArray, !.hasIndex = TRUE]
     ELSE g

\* The geometry as mergeVertices leaves it (it works in place).
mergeVertices(g) ==
  LET vertices == g.position
      indexArray == IF g.hasIndex THEN g.index
                    ELSE SequentialIndex(Len(vertices))
      m == MergeLoop(vertices, 0, EmptyMap, <<>>, <<>>)
  IN IF Len(m.newVertices) < Len(vertices)
       THEN [g EXCEPT !.position = m.newVertices,
                      !.index = [k \in DOMAIN indexArray |->
                                   At(m.vertexRemap, indexArray[k])],
                      !.hasIndex = TRUE]
     ELSE IF ~g.hasIndex
       THEN [g EXCEPT !.index = indexArray, !.hasIndex = TRUE]
     ELSE g

(***************************************************************************)
(* SpecWeld: mergeVertices applied, up to MaxCalls times in a row, to      *)
(* every mesh of up to MaxVerts vertices on a grid finer than the weld     *)
(* cell, non-indexed or indexed with one triangle.                         *)
(***************************************************************************)
WeldPoints == {Vec(x, y, 0) : x \in Coord, y \in 0..1}

\* one triangle on consecutive vertices, starting anywhere
RingTriangles(n) == {<<i, (i + 1) % n, (i + 2) % n>> : i \in 0..(n - 1)}

InitWeld ==
  /\ pc = "ready"
  /\ \E k \in 1..MaxVerts :
       \E p \in [1..k -> WeldPoints], t \in {<<>>} \cup RingTriangles(k) :
         heap = <<Geometry(p, <<>>, FALSE, t, t # <<>>)>>
  /\ pre = heap
  /\ params = [geometry |-> 1]
  /\ result = Null
  /\ calls = 0

CallMergeVertices ==
  /\ calls < MaxCalls
  /\ pre' = heap
  /\ heap' = [heap EXCEPT ![params.geometry] = mergeVertices(@)]
  /\ pc' = "done"
  /\ calls' = calls + 1
  /\ UNCHANGED <<params, result>>

NextWeld == CallMergeVertices

SpecWeld == InitWeld /\ [][NextWeld]_vars

TriangleCount(g) == IF g.hasIndex THEN Len(g.index) \div 3
                    ELSE Len(g.position) \div 3

\* C8: welding the output of a previous weld merges nothing: the vertices
\* (and so their number) are those the previous weld left.
C8_WeldIdempotent ==
  calls >= 2 =>
    /\ PositionCount(heap[1]) = PositionCount(pre[1])
    /\ heap[1] = pre[1]

\* a welded mesh, welded again, that holds two vertices closer than epsilon
C8_Witness ==
  /\ calls = 2
  /\ PositionCount(heap[1]) = 3
  /\ \E i, j \in 1..3 : i # j /\ DistSq(heap[1].position[i],
                                        heap[1].position[j]) = 1

\* the first vertex of the input that falls in the grid cell of vertex i
FirstOfCell(position, i) ==
  CHOOSE j \in 0..i : /\ CellKey(At(position, j)) = CellKey(At(position, i))
                      /\ \A k \in 0..(j - 1) :
                           CellKey(At(position, k)) # CellKey(At(position, i))

\* the merged index of old vertex i: the number of cells first seen before its
MergedIndex(position, i) ==
  Cardinality({j \in 0..(FirstOfCell(position, i) - 1) :
                 FirstOfCell(position, j) = j})

\* C9: welding never adds a vertex, keeps the number of triangles, writes as
\* each triangle index the merged index of the old vertex (below the new
\* vertex count), and keeps for each merged vertex the position of the first
\* vertex seen in its cell.
C9_WeldRemap ==
  calls >= 1 =>
    LET old == pre[1]
        new == heap[1]
        oldIndex == IF old.hasIndex THEN old.index
                    ELSE SequentialIndex(PositionCount(old))
    IN /\ PositionCount(new) <= PositionCount(old)
       /\ TriangleCount(new) = TriangleCount(old)
       /\ new.hasIndex
       /\ Len(new.index) = Len(oldIndex)
       /\ \A k \in DOMAIN new.index :
            /\ new.index[k] = MergedIndex(old.position, oldIndex[k])
            /\ new.index[k] >= 0
            /\ new.index[k] < PositionCount(new)
       /\ \A i \in 0..(PositionCount(old) - 1) :
            /\ MergedIndex(old.position, i) < PositionCount(new)
            /\ At(new.position, MergedIndex(old.position, i))
                 = At(old.position, FirstOfCell(old.position, i))

\* a weld that merged the second vertex of a triangle into the first
C9_Witness ==
  /\ calls = 1
  /\ pre[1].hasIndex
  /\ PositionCount(pre[1]) = 3
  /\ PositionCount(heap[1]) = 2
  /\ heap[1].index = <<0, 0, 1>>
  /\ pre[1].position[1] # pre[1].position[2]

(***************************************************************************)
(* BufferGeometry.computeVertexNormals (three.js), called wherever the     *)
(* code builds or changes a geometry.  Indexed: every face adds its cross  *)
(* product (pC - pB) x (pA - pB) to its three vertices; non-indexed: every *)
(* three vertices take their face's normal.  All normals are normalised.   *)
(* A face naming a vertex that does not exist reads NaN positions; the     *)
(* model has no NaN and leaves such a face out.                            *)
(***************************************************************************)
FaceCross(position, a, b, c) ==
  Cross(VSub(At(position, c), At(position, b)),
        VSub(At(position, a), At(position, b)))

RECURSIVE AccumulateNormals(_, _, _, _)
AccumulateNormals(position, index, f, normals) ==
  IF 3 * f + 3 > Len(index) THEN normals
  ELSE LET a == index[3 * f + 1]
           b == index[3 * f + 2]
           c == index[3 * f + 3]
           cb == FaceCross(position, a, b, c)
           n1 == [normals EXCEPT ![a + 1] = VAdd(@, cb)]
           n2 == [n1 EXCEPT ![b + 1] = VAdd(@, cb)]
           n3 == [n2 EXCEPT ![c + 1] = VAdd(@, cb)]
           inRange == {a, b, c} \subseteq 0..(Len(position) - 1)
       IN AccumulateNormals(position, index, f + 1,
                            IF inRange THEN n3 ELSE normals)

computeVertexNormals(g) ==
  LET n == Len(g.position)
      raw == IF g.hasIndex
               THEN AccumulateNormals(g.position, g.index, 0,
                                      [i \in 1..n |-> ZeroVec])
               ELSE [i \in 1..n |->
                       LET f == (i - 1) \div 3
                       IN IF 3 * f + 3 > n THEN ZeroVec
                          ELSE Normalize(FaceCross(g.position, 3 * f,
                                                   3 * f + 1, 3 * f + 2))]
  IN [g EXCEPT !.normal = [i \in 1..n |-> Normalize(raw[i])],
               !.hasNormal = TRUE]

\* the least and the greatest of a coordinate over the positions
CoordMin(position, c) ==
  CHOOSE v \in {position[i][c] : i \in DOMAIN position} :
    \A i \in DOMAIN position : v <= position[i][c]
CoordMax(position, c) ==
  CHOOSE v \in {position[i][c] : i \in DOMAIN position} :
    \A i \in DOMAIN position : v >= position[i][c]

\* BufferGeometry.computeBoundingBox(): the box of the position attribute
computeBoundingBox(g) ==
  IF Len(g.position) = 0 THEN [g EXCEPT !.boundingBox = NoBoundingBox]
  ELSE [g EXCEPT !.boundingBox =
          [isSet |-> TRUE,
           min |-> [c \in 1..3 |-> CoordMin(g.position, c)],
           max |-> [c \in 1..3 |-> CoordMax(g.position, c)]]]

\* BufferGeometry.computeBoundingSphere(): the centre of the box of the
\* positions and the greatest distance of a position from it.  The centre is
\* kept doubled (min + max) and the radius as four times its square, which
\* are integers.
computeBoundingSphere(g) ==
  IF Len(g.position) = 0 THEN [g EXCEPT !.boundingSphere = NoBoundingSphere]
  ELSE LET center == [c \in 1..3 |-> CoordMin(g.position, c)
                                      + CoordMax(g.position, c)]
           dist == {DistSq(VScale(g.position[i], 2), center) :
                      i \in DOMAIN g.position}
       IN [g EXCEPT !.boundingSphere =
             [isSet |-> TRUE, center |-> center,
              radiusSq |-> CHOOSE d \in dist : \A e \in dist : d >= e]]

\* computeVertexNormals(); computeBoundingBox(); computeBoundingSphere()
Recompute(g) ==
  computeBoundingSphere(computeBoundingBox(computeVertexNormals(g)))

(***************************************************************************)
(* ensureGeometrySymmetry  (ensureGeometrySymmetry.ts 9-165)               *)
(***************************************************************************)
\* lines 60-63: the vertex lies on every active symmetry plane
OnPlane(v, symmetryAxes, tolerance) ==
  /\ (~symmetryAxes.x \/ Abs(v[1]) < tolerance)
  /\ (~symmetryAxes.y \/ Abs(v[2]) < tolerance)
  /\ (~symmetryAxes.z \/ Abs(v[3]) < tolerance)

\* dist < tolerance, compared on squares
Within(a, b, tolerance) == tolerance > 0 /\ DistSq(a, b) < tolerance * tolerance

\* mutant: the search takes a vertex that is already paired
FindMirrorTakesMapped(vertices, i, mirrorPos, vertexToMirror, tolerance) ==
  LET found == {j \in (i + 1)..(Len(vertices) - 1) :
                  Within(mirrorPos, At(vertices, j), tolerance)}
  IN IF found = {} THEN -1
     ELSE CHOOSE j \in found : \A k \in found : j <= k

\* lines 73-85: the first vertex after i, not yet mapped, within tolerance of
\* mirrorPos; -1 when there is none
FindMirror(vertices, i, mirrorPos, vertexToMirror, tolerance) ==
  LET found == {j \in (i + 1)..(Len(vertices) - 1) :
                  /\ j \notin DOMAIN vertexToMirror
                  /\ Within(mirrorPos, At(vertices, j), tolerance)}
  IN IF found = {} THEN -1
     ELSE CHOOSE j \in found : \A k \in found : j <= k

\* mutant: the vertex pushed at line 90 is a copy of v, not its mirror image
SynthesizedVertexCopy(v, mirrorPos) == v

\* line 90: the vertex created for a vertex without a mirror
SynthesizedVertex(v, mirrorPos) == mirrorPos

\* lines 48-94: the pairing loop over the input's vertices
RECURSIVE PairLoop(_, _, _, _, _, _)
PairLoop(vertices, i, symmetryAxes, tolerance, newVertices, vertexToMirror) ==
  IF i >= Len(vertices)
    THEN [newVertices |-> newVertices, vertexToMirror |-> vertexToMirror]
  ELSE IF i \in DOMAIN vertexToMirror
    THEN PairLoop(vertices, i + 1, symmetryAxes, tolerance, newVertices,
                  vertexToMirror)
  ELSE LET v == At(vertices, i)
           mirrorPos == Flip(v, symmetryAxes)
       IN IF OnPlane(v, symmetryAxes, tolerance)
            THEN PairLoop(vertices, i + 1, symmetryAxes, tolerance,
                          newVertices, vertexToMirror @@ (i :> i))
          ELSE LET j == FindMirror(vertices, i, mirrorPos, vertexToMirror,
                                   tolerance)
               IN IF j >= 0
                    THEN PairLoop(vertices, i + 1, symmetryAxes, tolerance,
                                  newVertices,
                                  (i :> j) @@ (j :> i) @@ vertexToMirror)
                    ELSE LET newIndex == Len(newVertices)
                         IN PairLoop(vertices, i + 1, symmetryAxes, tolerance,
                                     Append(newVertices,
                                            SynthesizedVertex(v, mirrorPos)),
                                     (i :> newIndex) @@ (newIndex :> i)
                                       @@ vertexToMirror)

\* mutant: the key keeps the order of the three indices
SortedKeyUnsorted(a, b, c) == <<a, b, c>>

\* [m0, m1, m2].sort().join('-'): the same key for the same three indices in
\* any order (the sorted triple)
SortedKey(a, b, c) ==
  LET lo == Min(a, Min(b, c))
      hi == Max(a, Max(b, c))
  IN <<lo, a + b + c - lo - hi, hi>>

TriangleKeys(indices) ==
  {SortedKey(indices[3 * f + 1], indices[3 * f + 2], indices[3 * f + 3]) :
     f \in 0..((Len(indices) \div 3) - 1)}

\* lines 105-145: the loop over the input's triangles
RECURSIVE MirrorTriangles(_, _, _, _, _)
MirrorTriangles(indexArray, f, vertexToMirror, newIndices, processedTriangles) ==
  IF 3 * f + 3 > Len(indexArray) THEN newIndices
  ELSE LET i0 == indexArray[3 * f + 1]
           i1 == indexArray[3 * f + 2]
           i2 == indexArray[3 * f + 3]
           m0 == vertexToMirror[i0]
           m1 == vertexToMirror[i1]
           m2 == vertexToMirror[i2]
           needsMirror == m0 # i0 \/ m1 # i1 \/ m2 # i2
           mirrorKey == SortedKey(m0, m1, m2)
       IN IF needsMirror /\ mirrorKey \notin processedTriangles
            THEN MirrorTriangles(indexArray, f + 1, vertexToMirror,
                   IF mirrorKey \in TriangleKeys(newIndices) THEN newIndices
                   ELSE newIndices \o <<m0, m2, m1>>,
                   processedTriangles \cup {mirrorKey})
            ELSE MirrorTriangles(indexArray, f + 1, vertexToMirror,
                                 newIndices, processedTriangles)

\* lines 34-41: the index, or i, i+1, i+2 for every third vertex
RepairIndexArray(g) ==
  IF g.hasIndex THEN g.index
  ELSE [k \in 1..(3 * ((Len(g.position) + 2) \div 3)) |-> k - 1]

\* The heap and the reference ensureGeometrySymmetry returns.
ensureGeometrySymmetry(h, geometry, symmetryAxes, tolerance) ==
  IF NoAxis(symmetryAxes) THEN [heap |-> h, geometry |-> geometry]
  ELSE Bind(PairLoop(h[geometry].position, 0, symmetryAxes, tolerance,
                     h[geometry].position, EmptyMap),
            LAMBDA p :
              IF Len(p.newVertices) = Len(h[geometry].position)
                THEN [heap |-> h, geometry |-> geometry]
                ELSE LET indexArray == RepairIndexArray(h[geometry])
                         newIndices == MirrorTriangles(indexArray, 0,
                                         p.vertexToMirror, indexArray, {})
                         newGeometry == Recompute(
                           Geometry(p.newVertices, <<>>, FALSE, newIndices,
                                    TRUE))
                     IN [heap |-> Append(h, newGeometry),
                         geometry |-> Len(h) + 1])

(***************************************************************************)
(* SpecRepair: ensureGeometrySymmetry applied, up to MaxCalls times in a   *)
(* row (each time to the geometry the call before returned), to every mesh *)
(* of up to MaxVerts vertices near the symmetry planes.                    *)
(***************************************************************************)
RepairPoints == {Vec(x, 0, 0) : x \in (-MaxCoord - 1)..(MaxCoord + 1)}
                \cup {Vec(-2, 2, 0), Vec(2, 2, 0)}

RepairTolerances == {1, 2}     \* 0.0005 and the default 0.001

RepairAxes == {Axes(FALSE, FALSE, FALSE), Axes(TRUE, FALSE, FALSE),
               Axes(FALSE, TRUE, FALSE), Axes(TRUE, TRUE, FALSE),
               Axes(TRUE, TRUE, TRUE)}

InitRepair ==
  /\ pc = "ready"
  /\ \E k \in 1..MaxVerts :
       \E p \in [1..k -> RepairPoints], indexed \in BOOLEAN :
         /\ indexed \/ k = 3
         /\ heap = <<Geometry(p, <<>>, FALSE,
                              IF indexed THEN <<0, 1 % k, 2 % k>> ELSE <<>>,
                              indexed)>>
  /\ pre = heap
  /\ params \in [geometry : {1}, symmetryAxes : RepairAxes,
                 tolerance : RepairTolerances]
  /\ result = Null
  /\ calls = 0

\* a call, and the caller passing what it returned to the next call
CallEnsureGeometrySymmetry ==
  /\ calls < MaxCalls
  /\ \E geometry \in {IF calls = 0 THEN params.geometry ELSE result} :
       \E r \in {ensureGeometrySymmetry(heap, geometry, params.symmetryAxes,
                                         params.tolerance)} :
         /\ heap' = r.heap
         /\ result' = r.geometry
         /\ params' = [params EXCEPT !.geometry = geometry]
  /\ pre' = heap
  /\ pc' = "done"
  /\ calls' = calls + 1

NextRepair == CallEnsureGeometrySymmetry

SpecRepair == InitRepair /\ [][NextRepair]_vars

\* C6: a second repair, of the first one's output with the same axes and
\* tolerance, returns the mesh it was given: no vertex and no triangle added.
C6_RepairIdempotent ==
  calls >= 2 =>
    /\ result = params.geometry
    /\ heap = pre
    /\ PositionCount(heap[result]) = PositionCount(pre[params.geometry])
    /\ TriangleCount(heap[result]) = TriangleCount(pre[params.geometry])

\* the first repair built a new geometry and the second was given it
C6_Witness ==
  /\ calls = 2
  /\ Len(heap) = 2
  /\ PositionCount(heap[2]) > PositionCount(heap[1])

\* C7: after a repair with an axis enabled every vertex of the returned mesh
\* lies on all active planes within tolerance or has another vertex within
\* tolerance of its mirror position, and the pairing the repair made is
\* symmetric: the mirror of a vertex's mirror is the vertex.
C7_EveryVertexHasMirror ==
  (calls >= 1 /\ ~NoAxis(params.symmetryAxes)) =>
    LET a == params.symmetryAxes
        tol == params.tolerance
        out == heap[result].position
        n == Len(out)
        input == pre[params.geometry].position
        mirror == PairLoop(input, 0, a, tol, input, EmptyMap).vertexToMirror
    IN /\ \A i \in 0..(n - 1) :
            \/ OnPlane(At(out, i), a, tol)
            \/ \E j \in 0..(n - 1) :
                 j # i /\ Within(Flip(At(out, i), a), At(out, j), tol)
       /\ DOMAIN mirror = 0..(n - 1)
       /\ \A i \in 0..(n - 1) :
            /\ mirror[i] \in 0..(n - 1)
            /\ mirror[mirror[i]] = i
            /\ mirror[i] = i => OnPlane(At(out, i), a, tol)
            /\ mirror[i] # i =>
                 Within(Flip(At(out, i), a), At(out, mirror[i]), tol)

\* a repair that paired two vertices of the input and created a mirror for a
\* third
C7_Witness ==
  /\ calls = 1
  /\ params.symmetryAxes.x
  /\ PositionCount(pre[1]) = 3
  /\ PositionCount(heap[result]) = 4
  /\ \E i, j \in 1..3 :
       /\ i # j
       /\ ~OnPlane(pre[1].position[i], params.symmetryAxes, params.tolerance)
       /\ pre[1].position[j] # Flip(pre[1].position[i], params.symmetryAxes)
       /\ Within(Flip(pre[1].position[i], params.symmetryAxes),
                 pre[1].position[j], params.tolerance)

(***************************************************************************)
(* subdivideSymmetrically  (symmetricSubdivision.ts 9-322)                 *)
(* A JavaScript Set iterates in insertion order, and the order of          *)
(* edgesToSubdivide decides the index of every midpoint: the sets of edges *)
(* are sequences without repetition.                                       *)
(***************************************************************************)
SphereSnap == 600    \* 0.3, line 172
MaxPasses == 5       \* iterations < 5, line 106

\* mutant: the key keeps the direction of traversal
makeEdgeKeyDirected(i1, i2) == <<i1, i2>>

\* makeEdgeKey, lines 293-295: the smaller index first
makeEdgeKey(i1, i2) == IF i1 < i2 THEN <<i1, i2>> ELSE <<i2, i1>>

SetAdd(seq, e) == IF e \in Range(seq) THEN seq ELSE Append(seq, e)

Triangles(indexArray) == Len(indexArray) \div 3
Corner(indexArray, t, k) == indexArray[3 * t + k + 1]

\* the three edge keys of triangle t: edge01, edge12, edge20
TriEdges(indexArray, t) ==
  <<makeEdgeKey(Corner(indexArray, t, 0), Corner(indexArray, t, 1)),
    makeEdgeKey(Corner(indexArray, t, 1), Corner(indexArray, t, 2)),
    makeEdgeKey(Corner(indexArray, t, 2), Corner(indexArray, t, 0))>>

\* lines 84-96: the edge is longer than 1.5 maxEdgeLength and its midpoint is
\* closer than 0.8 localRadius to some symmetry point
ShouldMark(va, vb, localPoints, localRadius, maxEdgeLength) ==
  /\ ~(maxEdgeLength >= 0
       /\ 4 * DistSq(va, vb) <= 9 * maxEdgeLength * maxEdgeLength)
  /\ \E k \in DOMAIN localPoints :
       /\ localRadius > 0
       /\ 25 * LenSq(VSub(VAdd(va, vb), VScale(localPoints[k], 2)))
            < 64 * localRadius * localRadius

\* lines 67-98: the marking loop over the triangles
MarkEdges(vertices, indexArray, localPoints, localRadius, maxEdgeLength) ==
  LET markTri(marked, t) ==
        LET i0 == Corner(indexArray, t, 0)
            i1 == Corner(indexArray, t, 1)
            i2 == Corner(indexArray, t, 2)
            m(i, j) == ShouldMark(At(vertices, i), At(vertices, j),
                                  localPoints, localRadius, maxEdgeLength)
            s1 == IF m(i0, i1) THEN SetAdd(marked, makeEdgeKey(i0, i1))
                  ELSE marked
            s2 == IF m(i1, i2) THEN SetAdd(s1, makeEdgeKey(i1, i2)) ELSE s1
        IN IF m(i2, i0) THEN SetAdd(s2, makeEdgeKey(i2, i0)) ELSE s2
      loop[t \in 0..Triangles(indexArray)] ==
        IF t = 0 THEN <<>> ELSE markTri(loop[t - 1], t - 1)
  IN loop[Triangles(indexArray)]

\* buildEdgeAdjacency, lines 297-322: the triangles listed under an edge key,
\* once for each side of the triangle that has the key
buildEdgeAdjacency(indexArray, edge) ==
  LET loop[t \in 0..Triangles(indexArray)] ==
        IF t = 0 THEN <<>>
        ELSE LET e == TriEdges(indexArray, t - 1)
             IN loop[t - 1]
                \o When(e[1] = edge, <<t - 1>>)
                \o When(e[2] = edge, <<t - 1>>)
                \o When(e[3] = edge, <<t - 1>>)
  IN loop[Triangles(indexArray)]

\* lines 115-144: triangle t of an edge's adjacency list; the sides it adds
\* to edgesToAdd when exactly two of its sides are marked
VisitTriangle(indexArray, edgesToSubdivide, edgesToAdd, t) ==
  LET e == TriEdges(indexArray, t)
      has(k) == e[k] \in Range(edgesToSubdivide)
      markedCount == (IF has(1) THEN 1 ELSE 0) + (IF has(2) THEN 1 ELSE 0)
                     + (IF has(3) THEN 1 ELSE 0)
      a1 == IF ~has(1) THEN SetAdd(edgesToAdd, e[1]) ELSE edgesToAdd
      a2 == IF ~has(2) THEN SetAdd(a1, e[2]) ELSE a1
      a3 == IF ~has(3) THEN SetAdd(a2, e[3]) ELSE a2
  IN IF markedCount = 2 THEN a3 ELSE edgesToAdd

\* lines 114-145: the loop over the triangles listed under one edge
RECURSIVE VisitTriangles(_, _, _, _, _)
VisitTriangles(indexArray, edgesToSubdivide, triangles, k, edgesToAdd) ==
  IF k > Len(triangles) THEN edgesToAdd
  ELSE Bind(VisitTriangle(indexArray, edgesToSubdivide, edgesToAdd,
                          triangles[k]),
            LAMBDA added :
              VisitTriangles(indexArray, edgesToSubdivide, triangles, k + 1,
                             added))

\* lines 112-146: the loop over the marked edges, from the k-th
RECURSIVE PassLoop(_, _, _, _)
PassLoop(indexArray, edgesToSubdivide, k, edgesToAdd) ==
  IF k > Len(edgesToSubdivide) THEN edgesToAdd
  ELSE Bind(buildEdgeAdjacency(indexArray, edgesToSubdivide[k]),
            LAMBDA triangles :
              Bind(VisitTriangles(indexArray, edgesToSubdivide, triangles, 1,
                                  edgesToAdd),
                   LAMBDA added :
                     PassLoop(indexArray, edgesToSubdivide, k + 1, added)))

\* lines 110-146: one pass; the edges it collects in edgesToAdd
PropagatePass(indexArray, edgesToSubdivide) ==
  PassLoop(indexArray, edgesToSubdivide, 1, <<>>)

\* mutant: the loop has no pass cap
PassLimitNever(iterations) == FALSE

\* line 106: the negation of iterations < 5
PassLimitReached(iterations) == iterations >= MaxPasses

\* lines 104-151: passes until one adds nothing, at most MaxPasses
RECURSIVE Propagate(_, _, _)
Propagate(indexArray, edgesToSubdivide, iterations) ==
  IF PassLimitReached(iterations) THEN edgesToSubdivide
  ELSE LET edgesToAdd == PropagatePass(indexArray, edgesToSubdivide)
       IN IF edgesToAdd = <<>> THEN edgesToSubdivide
          ELSE Propagate(indexArray, edgesToSubdivide \o edgesToAdd,
                         iterations + 1)

\* lines 163-174: the midpoint of an edge, moved onto the sphere of the mean
\* radius when both ends are nearly equally far from the origin
Midpoint(v1, v2) ==
  LET sum == VAdd(v1, v2)
      v1Length == VLength(v1)
      v2Length == VLength(v2)
      unit == Normalize(sum)
  IN IF Abs(v1Length - v2Length) < 2 * SphereSnap
       THEN <<RoundDiv(unit[1] * (v1Length + v2Length), 2 * NormScale),
              RoundDiv(unit[2] * (v1Length + v2Length), 2 * NormScale),
              RoundDiv(unit[3] * (v1Length + v2Length), 2 * NormScale)>>
       ELSE <<RoundDiv(sum[1], 2), RoundDiv(sum[2], 2), RoundDiv(sum[3], 2)>>

\* the index of e in the sequence (0-based), e being in it
Position(seq, e) == (CHOOSE k \in DOMAIN seq : seq[k] = e) - 1

\* mutant: case 7 writes the centre triangle with the index after the last
\* midpoint
SplitTriangleOffByOne(i0, i1, i2, e, edges, base) ==
  LET mid(k) == base + Position(edges, e[k])
      has(k) == e[k] \in Range(edges)
      pattern == (IF has(1) THEN 1 ELSE 0) + (IF has(2) THEN 2 ELSE 0)
                 + (IF has(3) THEN 4 ELSE 0)
  IN IF pattern = 0 THEN <<i0, i1, i2>>
     ELSE <<i0, i1, i2, mid(1) + Len(edges), i1, i2>>

\* mutant: case 7 leaves out the centre triangle
SplitTriangleDropsCentre(i0, i1, i2, e, edges, base) ==
  LET mid(k) == base + Position(edges, e[k])
      has(k) == e[k] \in Range(edges)
      pattern == (IF has(1) THEN 1 ELSE 0) + (IF has(2) THEN 2 ELSE 0)
                 + (IF has(3) THEN 4 ELSE 0)
  IN CASE pattern = 0 -> <<i0, i1, i2>>
       [] pattern = 1 -> <<i0, mid(1), i2,  mid(1), i1, i2>>
       [] pattern = 2 -> <<i0, i1, mid(2),  i0, mid(2), i2>>
       [] pattern = 3 -> <<i0, mid(1), i2,  mid(1), i1, mid(2),
                           mid(1), mid(2), i2>>
       [] pattern = 4 -> <<i0, i1, mid(3),  i1, i2, mid(3)>>
       [] pattern = 5 -> <<i0, mid(1), mid(3),  mid(1), i1, i2,
                           mid(3), mid(1), i2>>
       [] pattern = 6 -> <<i0, i1, mid(2),  i0, mid(2), mid(3),
                           mid(3), mid(2), i2>>
       [] pattern = 7 -> <<i0, mid(1), mid(3),  i1, mid(2), mid(1),
                           i2, mid(3), mid(2)>>

\* mutant: case 5 writes its third triangle the other way round
SplitTriangleFlipsOne(i0, i1, i2, e, edges, base) ==
  LET mid(k) == base + Position(edges, e[k])
      has(k) == e[k] \in Range(edges)
      pattern == (IF has(1) THEN 1 ELSE 0) + (IF has(2) THEN 2 ELSE 0)
                 + (IF has(3) THEN 4 ELSE 0)
  IN CASE pattern = 0 -> <<i0, i1, i2>>
       [] pattern = 1 -> <<i0, mid(1), i2,  mid(1), i1, i2>>
       [] pattern = 2 -> <<i0, i1, mid(2),  i0, mid(2), i2>>
       [] pattern = 3 -> <<i0, mid(1), i2,  mid(1), i1, mid(2),
                           mid(1), mid(2), i2>>
       [] pattern = 4 -> <<i0, i1, mid(3),  i1, i2, mid(3)>>
       [] pattern = 5 -> <<i0, mid(1), mid(3),  mid(1), i1, i2,
                           mid(1), mid(3), i2>>
       [] pattern = 6 -> <<i0, i1, mid(2),  i0, mid(2), mid(3),
                           mid(3), mid(2), i2>>
       [] pattern = 7 -> <<i0, mid(1), mid(3),  i1, mid(2), mid(1),
                           i2, mid(3), mid(2),  mid(1), mid(2), mid(3)>>

\* mutant: case 1 leaves the triangle whole
SplitTriangleLeavesWhole(i0, i1, i2, e, edges, base) ==
  LET mid(k) == base + Position(edges, e[k])
      has(k) == e[k] \in Range(edges)
      pattern == (IF has(1) THEN 1 ELSE 0) + (IF has(2) THEN 2 ELSE 0)
                 + (IF has(3) THEN 4 ELSE 0)
  IN CASE pattern = 0 -> <<i0, i1, i2>>
       [] pattern = 1 -> <<i0, i1, i2>>
       [] pattern = 2 -> <<i0, i1, mid(2),  i0, mid(2), i2>>
       [] pattern = 3 -> <<i0, mid(1), i2,  mid(1), i1, mid(2),
                           mid(1), mid(2), i2>>
       [] pattern = 4 -> <<i0, i1, mid(3),  i1, i2, mid(3)>>
       [] pattern = 5 -> <<i0, mid(1), mid(3),  mid(1), i1, i2,
                           mid(3), mid(1), i2>>
       [] pattern = 6 -> <<i0, i1, mid(2),  i0, mid(2), mid(3),
                           mid(3), mid(2), i2>>
       [] pattern = 7 -> <<i0, mid(1), mid(3),  i1, mid(2), mid(1),
                           i2, mid(3), mid(2),  mid(1), mid(2), mid(3)>>

\* lines 198-270: the triangles that replace triangle (i0, i1, i2), whose edge
\* keys are e; a marked edge's midpoint has index base + its place in edges
SplitTriangle(i0, i1, i2, e, edges, base) ==
  LET mid(k) == base + Position(edges, e[k])
      has(k) == e[k] \in Range(edges)
      pattern == (IF has(1) THEN 1 ELSE 0) + (IF has(2) THEN 2 ELSE 0)
                 + (IF has(3) THEN 4 ELSE 0)
  IN CASE pattern = 0 -> <<i0, i1, i2>>
       [] pattern = 1 -> <<i0, mid(1), i2,  mid(1), i1, i2>>
       [] pattern = 2 -> <<i0, i1, mid(2),  i0, mid(2), i2>>
       [] pattern = 3 -> <<i0, mid(1), i2,  mid(1), i1, mid(2),
                           mid(1), mid(2), i2>>
       [] pattern = 4 -> <<i0, i1, mid(3),  i1, i2, mid(3)>>
       [] pattern = 5 -> <<i0, mid(1), mid(3),  mid(1), i1, i2,
                           mid(3), mid(1), i2>>
       [] pattern = 6 -> <<i0, i1, mid(2),  i0, mid(2), mid(3),
                           mid(3), mid(2), i2>>
       [] pattern = 7 -> <<i0, mid(1), mid(3),  i1, mid(2), mid(1),
                           i2, mid(3), mid(2),  mid(1), mid(2), mid(3)>>

\* lines 182-271: the new index
SubdivideTriangles(indexArray, edges, base) ==
  LET loop[t \in 0..Triangles(indexArray)] ==
        IF t = 0 THEN <<>>
        ELSE loop[t - 1] \o SplitTriangle(Corner(indexArray, t - 1, 0),
                                          Corner(indexArray, t - 1, 1),
                                          Corner(indexArray, t - 1, 2),
                                          TriEdges(indexArray, t - 1),
                                          edges, base)
  IN loop[Triangles(indexArray)]

\* lines 32-62: the index of the geometry, or the weld of its vertices
SubdivideInput(g) ==
  IF g.hasIndex THEN [vertices |-> g.position, indexArray |-> g.index]
  ELSE LET m == MergeLoop(g.position, 0, EmptyMap, <<>>, <<>>)
       IN [vertices |-> m.newVertices, indexArray |-> m.vertexRemap]

\* lines 64-151: the edges marked, after propagation, in insertion order
EdgesToSubdivide(g, localPoints, localRadius, maxEdgeLength) ==
  LET in == SubdivideInput(g)
  IN Propagate(in.indexArray,
               MarkEdges(in.vertices, in.indexArray, localPoints, localRadius,
                         maxEdgeLength),
               0)

\* lines 158-179: the vertices, then one midpoint for each marked edge
NewVertices(vertices, edges) ==
  vertices \o [k \in 1..Len(edges) |->
                 Midpoint(At(vertices, edges[k][1]),
                          At(vertices, edges[k][2]))]

\* mutant: the subdivided mesh is written over the input mesh
subdivideSymmetricallyInPlace(h, geometry, localPoints, localRadius, maxEdgeLength) ==
  Bind(SubdivideInput(h[geometry]), LAMBDA in :
    Bind(EdgesToSubdivide(h[geometry], localPoints, localRadius,
                          maxEdgeLength),
         LAMBDA edges :
           IF Len(edges) = 0 THEN [heap |-> h, geometry |-> geometry]
           ELSE LET newVertices == NewVertices(in.vertices, edges)
                    newIndices == SubdivideTriangles(in.indexArray, edges,
                                                     Len(in.vertices))
                    newGeometry == Recompute(
                      Geometry(newVertices, <<>>, FALSE, newIndices, TRUE))
                IN [heap |-> [h EXCEPT ![geometry] = newGeometry],
                    geometry |-> geometry]))

\* The heap and the reference subdivideSymmetrically returns.
subdivideSymmetrically(h, geometry, localPoints, localRadius, maxEdgeLength) ==
  Bind(SubdivideInput(h[geometry]), LAMBDA in :
    Bind(EdgesToSubdivide(h[geometry], localPoints, localRadius,
                          maxEdgeLength),
         LAMBDA edges :
           IF Len(edges) = 0 THEN [heap |-> h, geometry |-> geometry]
           ELSE LET newVertices == NewVertices(in.vertices, edges)
                    newIndices == SubdivideTriangles(in.indexArray, edges,
                                                     Len(in.vertices))
                    newGeometry == Recompute(
                      Geometry(newVertices, <<>>, FALSE, newIndices, TRUE))
                IN [heap |-> Append(h, newGeometry),
                    geometry |-> Len(h) + 1]))

(***************************************************************************)
(* The meshes handed to subdivision and to strokes: flat triangle strips   *)
(* of up to MaxTris triangles around the origin, every vertex on one of a  *)
(* few places so that edges of several lengths occur; indexed, indexed     *)
(* with a degenerate triangle added, or as a non-indexed triangle soup.    *)
(***************************************************************************)
StripPlaces(i) ==
  LET c == i \div 2
  IN IF i % 2 = 0
       THEN {Vec(x, 0, -16) : x \in {16 * c - 16, 16 * c}}
       ELSE {Vec(x, 0, z) : x \in {16 * c - 16, 16 * c}, z \in {16, 32}}

RECURSIVE StripPositions(_)
StripPositions(n) ==
  IF n = 0 THEN {<<>>}
  ELSE {Append(p, v) : p \in StripPositions(n - 1), v \in StripPlaces(n - 1)}

StripIndex(k) ==
  [j \in 1..(3 * k) |->
     LET t == (j - 1) \div 3
         c == (j - 1) % 3
     IN IF t % 2 = 0 THEN t + c
        ELSE IF c = 0 THEN t + 1 ELSE IF c = 1 THEN t ELSE t + 2]

Soup(position, index) == [j \in DOMAIN index |-> At(position, index[j])]

StripMeshes ==
  UNION {
    UNION {{Geometry(p, <<>>, FALSE, StripIndex(k), TRUE),
            Geometry(p, <<>>, FALSE, StripIndex(k) \o <<0, 0, 1>>, TRUE),
            Geometry(Soup(p, StripIndex(k)), <<>>, FALSE, <<>>, FALSE)}
             : p \in StripPositions(k + 2)}
      : k \in 1..MaxTris}

(***************************************************************************)
(* SpecSubdivide: subdivideSymmetrically applied once to every strip, for  *)
(* the symmetry points of a few click points and several radii and edge    *)
(* lengths.                                                                *)
(***************************************************************************)
ClickPoints == {Vec(0, 0, 0), Vec(16, 0, 16), Vec(-8, 4, 24)}

StrokeAxes == {Axes(FALSE, FALSE, FALSE), Axes(TRUE, FALSE, FALSE),
               Axes(TRUE, FALSE, TRUE)}

InitSubdivide ==
  /\ pc = "ready"
  /\ \E g \in StripMeshes : heap = <<g>>
  /\ pre = heap
  /\ \E c \in ClickPoints, a \in StrokeAxes, r \in {24, 48}, e \in {4, 16} :
       params = [geometry |-> 1,
                 localPoints |-> calculateSymmetryPoints(c, a),
                 localRadius |-> r,
                 maxEdgeLength |-> e]
  /\ result = Null
  /\ calls = 0

CallSubdivideSymmetrically ==
  /\ pc = "ready"
  /\ \E r \in {subdivideSymmetrically(heap, params.geometry,
                                        params.localPoints, params.localRadius,
                                        params.maxEdgeLength)} :
       /\ heap' = r.heap
       /\ result' = r.geometry
  /\ pre' = heap
  /\ pc' = "done"
  /\ calls' = calls + 1
  /\ UNCHANGED params

NextSubdivide == CallSubdivideSymmetrically

SpecSubdivide == InitSubdivide /\ [][NextSubdivide]_vars

IndicesInRange(g) ==
  g.hasIndex => \A k \in DOMAIN g.index :
                  g.index[k] >= 0 /\ g.index[k] < PositionCount(g)

\* C10: every triangle index of the mesh subdivideSymmetrically returns is
\* smaller than that mesh's vertex count, whatever edges were marked.
C10_SubdivideIndicesInRange ==
  pc = "done" => IndicesInRange(heap[result])

\* a subdivision that split one triangle along all three edges and its
\* neighbour along one
C10_Witness ==
  /\ pc = "done"
  /\ result = 2
  /\ pre[1].hasIndex
  /\ Len(pre[1].index) = 6
  /\ Len(heap[2].index) = 18
  /\ PositionCount(heap[2]) = PositionCount(pre[1]) + 3

(***************************************************************************)
(* applyDeformation and its helpers  (sculptingEngine.ts 87-262)           *)
(***************************************************************************)
Up == <<0, NormScale, 0>>      \* new THREE.Vector3(0, 1, 0)
MinMove == 2                   \* direction.length() < 0.001, line 106
StrengthScale == 400           \* 0.02 of line 231: thousandths of a length
                               \* unit per percent of brushStrength
PushCap == 400                 \* Math.min(moveDistance * 250, 50.0): the
PushDivisor == 8               \* factor is min(moveDistance, 400) / 8

Tools == {"add", "subtract", "push"}

\* calculateAverageNormal, lines 127-172
calculateAverageNormal(g, clickPoint, brushSize) ==
  IF ~g.hasNormal THEN Up
  ELSE LET near == {i \in 1..Len(g.position) :
                      4 * DistSq(g.position[i], clickPoint)
                        < brushSize * brushSize}
           sum[i \in 0..Len(g.position)] ==
             IF i = 0 THEN ZeroVec
             ELSE IF i \in near THEN VAdd(sum[i - 1], g.normal[i])
             ELSE sum[i - 1]
           total == sum[Len(g.position)]
           count == Cardinality(near)
       IN IF count > 0
            THEN Normalize(<<TruncDiv(total[1], count),
                             TruncDiv(total[2], count),
                             TruncDiv(total[3], count)>>)
            ELSE Up

\* lines 201-207: the mirror configuration inferred from the signs
InferMirrorConfig(symPoint, clickPoint) ==
  Axes(Sign(symPoint[1]) # Sign(clickPoint[1]),
       Sign(symPoint[2]) # Sign(clickPoint[2]),
       Sign(symPoint[3]) # Sign(clickPoint[3]))

\* mutant: a push without a previous point moves along the average normal
calculateDirectionPushFallsBack(tool, avgNormal, clickPoint, previousPoint, mirrorConfig) ==
  IF tool = "push" /\ previousPoint # Null
    THEN LET direction ==
               IF mirrorConfig = Null THEN VSub(clickPoint, previousPoint)
               ELSE Flip(VSub(clickPoint, previousPoint), mirrorConfig)
         IN IF LenSq(direction) < MinMove * MinMove THEN Null
            ELSE Normalize(direction)
    ELSE IF mirrorConfig = Null THEN avgNormal
         ELSE Normalize(Flip(avgNormal, mirrorConfig))

\* calculateDirection, lines 87-122; Null is the null the code returns
calculateDirection(tool, avgNormal, clickPoint, previousPoint, mirrorConfig) ==
  IF tool = "push"
    THEN IF previousPoint = Null THEN Null
         ELSE LET direction ==
                    IF mirrorConfig = Null THEN VSub(clickPoint, previousPoint)
                    ELSE Flip(VSub(clickPoint, previousPoint), mirrorConfig)
              IN IF LenSq(direction) < MinMove * MinMove THEN Null
                 ELSE Normalize(direction)
    ELSE IF mirrorConfig = Null THEN avgNormal
         ELSE Normalize(Flip(avgNormal, mirrorConfig))

\* mutant: invert is applied to the add tool only
MultiplierInvertAddOnly(tool, strength, moveDistance, invert) ==
  IF tool = "push"
    THEN LET m == TruncDiv(strength * Min(moveDistance, PushCap), PushDivisor)
         IN IF invert THEN -m ELSE m
    ELSE IF tool = "subtract" THEN -strength
         ELSE IF invert THEN -strength ELSE strength

\* lines 233-248: the signed multiplier, in thousandths of a length unit
Multiplier(tool, strength, moveDistance, invert) ==
  IF tool = "push"
    THEN LET m == TruncDiv(strength * Min(moveDistance, PushCap), PushDivisor)
         IN IF invert THEN -m ELSE m
    ELSE LET m == IF tool = "subtract" THEN -strength ELSE strength
         IN IF invert THEN -m ELSE m

\* lines 221-254: vertex i as the brush at symPoint leaves it
DeformVertex(vertex, symPoint, direction, tool, brushSize, brushStrength, moveDistance, invert) ==
  LET distance == ISqrt(DistSq(vertex, symPoint))
      falloff == brushSize - distance
      strength == TruncDiv(StrengthScale * brushStrength * falloff * falloff,
                           brushSize * brushSize)
      multiplier == Multiplier(tool, strength, moveDistance, invert)
  IN <<vertex[1] + TruncDiv(direction[1] * multiplier, 1000 * NormScale),
       vertex[2] + TruncDiv(direction[2] * multiplier, 1000 * NormScale),
       vertex[3] + TruncDiv(direction[3] * multiplier, 1000 * NormScale)>>

\* mutant: a vertex on the rim of the brush is deformed too
InBrushInclusive(vertex, symPoint, brushSize) ==
  brushSize > 0 /\ DistSq(vertex, symPoint) <= brushSize * brushSize

\* line 228: distance < brushSize
InBrush(vertex, symPoint, brushSize) ==
  brushSize > 0 /\ DistSq(vertex, symPoint) < brushSize * brushSize

\* The geometry as applyDeformation leaves it (it writes the positions in
\* place) and the flag it returns.
applyDeformation(g, symmetryPoints, tool, brushSize, brushStrength, clickPoint, previousPoint, invert) ==
  LET avgNormal == calculateAverageNormal(g, clickPoint, brushSize)
      moveDistance == IF previousPoint # Null
                        THEN ISqrt(DistSq(clickPoint, previousPoint)) ELSE 0
      n == Len(g.position)
      \* the state after the first symIdx symmetry points
      outer[symIdx \in 0..Len(symmetryPoints)] ==
        IF symIdx = 0 THEN [position |-> g.position, modified |-> FALSE]
        ELSE LET before == outer[symIdx - 1]
                 symPoint == symmetryPoints[symIdx]
                 mirrorConfig == IF symIdx = 1 THEN Null
                                 ELSE InferMirrorConfig(symPoint, clickPoint)
                 direction == calculateDirection(tool, avgNormal, clickPoint,
                                                 previousPoint, mirrorConfig)
                 hit == {i \in 1..n :
                           InBrush(before.position[i], symPoint, brushSize)}
             IN IF direction = Null THEN before
                ELSE [position |->
                        [i \in 1..n |->
                           IF i \in hit
                             THEN DeformVertex(before.position[i], symPoint,
                                               direction, tool, brushSize,
                                               brushStrength, moveDistance,
                                               invert)
                             ELSE before.position[i]],
                      modified |-> before.modified \/ hit # {}]
      final == outer[Len(symmetryPoints)]
  IN [geometry |-> [g EXCEPT !.position = final.position],
      modified |-> final.modified]

(***************************************************************************)
(* The meshes handed to strokes: strips as above, wide enough for their    *)
(* vertices to lie off the symmetry planes by more than the repair         *)
(* tolerance; mirror-symmetric or to one side of the plane x = 0; indexed  *)
(* or a triangle soup; with the normals of their faces or with none.       *)
(***************************************************************************)
SymmetricStrip(k) ==
  [i \in 1..(k + 2) |->
     Vec(48 * ((i - 1) \div 2) - 24, 0, IF i % 2 = 1 THEN -24 ELSE 24)]

SkewStrip(k) ==
  [i \in 1..(k + 2) |->
     Vec(24 * ((i - 1) \div 2) + 8, 0, IF i % 2 = 1 THEN -24 ELSE 40)]

StrokeMeshes ==
  UNION {
    UNION {{Geometry(p, <<>>, FALSE, StripIndex(k), TRUE),
            computeVertexNormals(Geometry(p, <<>>, FALSE, StripIndex(k), TRUE)),
            computeVertexNormals(
              Geometry(Soup(p, StripIndex(k)), <<>>, FALSE, <<>>, FALSE))}
             : p \in {SymmetricStrip(k), SkewStrip(k)}}
      : k \in 1..MaxTris}

StrokeClicks == {Vec(24, 0, 0), Vec(0, 4, 0), Vec(-24, 0, 24)}
PreviousPoints == {Null, Vec(16, 0, 8)}
BrushSizes == {16, 32, 48}

(***************************************************************************)
(* SpecDeform: applyDeformation applied once, to every stroke mesh and to   *)
(* the walls of a groove, for                                              *)
(* the symmetry points of a click point.                                   *)
(***************************************************************************)
\* two walls facing each other across the plane x = 0, one triangle each,
\* the normals pointing at the plane
GrooveWalls ==
  computeVertexNormals(
    Geometry(<<Vec(-4, 0, -24), Vec(-4, 0, 24), Vec(-4, 24, -24),
               Vec(4, 0, -24), Vec(4, 0, 24), Vec(4, 24, -24)>>,
             <<>>, FALSE, <<0, 2, 1, 3, 4, 5>>, TRUE))

DeformMeshes == StrokeMeshes \cup {GrooveWalls}

DeformClicks == StrokeClicks \cup {Vec(14, 0, 24)}

InitDeform ==
  /\ pc = "ready"
  /\ \E g \in DeformMeshes : heap = <<g>>
  /\ pre = heap
  /\ \E c \in DeformClicks,
        a \in [x : BOOLEAN, y : {FALSE}, z : BOOLEAN] :
       \E rest \in [tool : Tools, brushSize : BrushSizes,
                    brushStrength : {50, 100},
                    previousPoint : PreviousPoints, invert : BOOLEAN] :
         params = [geometry |-> 1,
                   symmetryPoints |-> calculateSymmetryPoints(c, a),
                   clickPoint |-> c] @@ rest
  /\ result = Null
  /\ calls = 0

CallApplyDeformation ==
  /\ pc = "ready"
  /\ \E r \in {applyDeformation(heap[params.geometry], params.symmetryPoints,
                                params.tool, params.brushSize,
                                params.brushStrength, params.clickPoint,
                                params.previousPoint, params.invert)} :
       /\ heap' = [heap EXCEPT ![params.geometry] = r.geometry]
       /\ result' = r.modified
  /\ pre' = heap
  /\ pc' = "done"
  /\ calls' = calls + 1
  /\ UNCHANGED params

NextDeform == CallApplyDeformation

SpecDeform == InitDeform /\ [][NextDeform]_vars

\* C3: applyDeformation with the push tool and no previous point returns
\* modified = false and leaves every vertex position as it was.
C3_PushWithoutPreviousPoint ==
  (pc = "done" /\ params.tool = "push" /\ params.previousPoint = Null) =>
    /\ result = FALSE
    /\ heap[params.geometry].position = pre[params.geometry].position
    /\ heap = pre

\* a push without a previous point whose brush encloses vertices
C3_Witness ==
  /\ pc = "done"
  /\ params.tool = "push"
  /\ params.previousPoint = Null
  /\ params.invert
  /\ Len(params.symmetryPoints) = 4
  /\ \E i \in DOMAIN pre[1].position :
       InBrush(pre[1].position[i], params.symmetryPoints[2], params.brushSize)

\* what the same call would have done with another tool and invert flag
Deformed(tool, invert) ==
  applyDeformation(pre[params.geometry], params.symmetryPoints, tool,
                   params.brushSize, params.brushStrength, params.clickPoint,
                   params.previousPoint, invert)

\* C5: subtract with invert displaces every vertex exactly as add without
\* invert does, and add with invert exactly as subtract without invert.
C5_DoubleNegation ==
  pc = "done" =>
    /\ (params.tool = "subtract" /\ params.invert) =>
         /\ heap[params.geometry] = Deformed("add", FALSE).geometry
         /\ result = Deformed("add", FALSE).modified
    /\ (params.tool = "add" /\ params.invert) =>
         /\ heap[params.geometry] = Deformed("subtract", FALSE).geometry
         /\ result = Deformed("subtract", FALSE).modified

\* an inverted subtract that raised a vertex, as an add does
C5_Witness ==
  /\ pc = "done"
  /\ params.tool = "subtract"
  /\ params.invert
  /\ result = TRUE
  /\ pre[1].hasNormal
  /\ \E i \in DOMAIN pre[1].position :
       /\ heap[1].position[i][2] > pre[1].position[i][2]
       /\ heap[1].position[i] =
            Deformed("add", FALSE).geometry.position[i]
       /\ heap[1].position[i] #
            Deformed("subtract", FALSE).geometry.position[i]

(***************************************************************************)
(* applySculptingStroke  (sculptingEngine.ts 269-340)                      *)
(***************************************************************************)
RepairTolerance == 20          \* ensureGeometrySymmetry(..., 0.01), line 310

\* mutant: the stroke always works on the geometry it was given
CloneIfNever(h, geometry, cloneGeometry) == [heap |-> h, geometry |-> geometry]

\* lines 285-287: params.cloneGeometry ? params.geometry.clone() : the same
CloneIf(h, geometry, cloneGeometry) ==
  IF cloneGeometry THEN [heap |-> Append(h, h[geometry]),
                         geometry |-> Len(h) + 1]
  ELSE [heap |-> h, geometry |-> geometry]

\* lines 296-312: shouldSubdivide !== false runs the subdivision, and the
\* repair only there; subdivide is "unset" for a caller that left it out.
\* stages lists the stages that ran, in the order they ran.
Refine(h, geometry, symmetryPoints, p) ==
  IF p.shouldSubdivide = "false"
    THEN [heap |-> h, geometry |-> geometry, stages |-> <<>>]
  ELSE Bind(subdivideSymmetrically(h, geometry, symmetryPoints,
                                   (3 * p.brushSize) \div 2,
                                   p.brushSize \div 4),
            LAMBDA s :
              IF p.ensureSymmetry
                THEN Bind(ensureGeometrySymmetry(s.heap, s.geometry,
                                                 p.symmetryAxes,
                                                 RepairTolerance),
                          LAMBDA e : [heap |-> e.heap,
                                      geometry |-> e.geometry,
                                      stages |-> <<"subdivide", "repair">>])
                ELSE [heap |-> s.heap, geometry |-> s.geometry,
                      stages |-> <<"subdivide">>])

\* mutant: the normals and the bounds are recomputed before the deformation
\* writes the positions, not after
DeformAfterRecompute(refined, symmetryPoints, p) ==
  Bind(applyDeformation(Recompute(refined.heap[refined.geometry]),
                        symmetryPoints,
                        p.tool, p.brushSize, p.brushStrength, p.clickPoint,
                        p.pushToolPreviousPoint, p.invert),
       LAMBDA d :
         [heap |-> [refined.heap EXCEPT ![refined.geometry] = d.geometry],
          geometry |-> refined.geometry,
          modified |-> d.modified,
          stages |-> refined.stages \o <<"recompute", "deform">>])

\* lines 316-339: the deformation of the geometry the stages before left,
\* in place, and the recomputation when it modified a vertex
DeformAndRecompute(refined, symmetryPoints, p) ==
  Bind(applyDeformation(refined.heap[refined.geometry], symmetryPoints,
                        p.tool, p.brushSize, p.brushStrength, p.clickPoint,
                        p.pushToolPreviousPoint, p.invert),
       LAMBDA d :
         [heap |-> [refined.heap EXCEPT ![refined.geometry] =
                      IF d.modified THEN Recompute(d.geometry)
                      ELSE d.geometry],
          geometry |-> refined.geometry,
          modified |-> d.modified,
          stages |-> refined.stages \o
                       (IF d.modified THEN <<"deform", "recompute">>
                        ELSE <<"deform">>)])

applySculptingStroke(h, p) ==
  Bind(calculateSymmetryPoints(p.clickPoint, p.symmetryAxes),
       LAMBDA symmetryPoints :
         Bind(CloneIf(h, p.geometry, p.cloneGeometry),
              LAMBDA cloned :
                Bind(Refine(cloned.heap, cloned.geometry, symmetryPoints, p),
                     LAMBDA refined :
                       Bind(DeformAndRecompute(refined, symmetryPoints, p),
                            LAMBDA d :
                              [d EXCEPT !.stages =
                                          <<"symmetry">> \o @]))))

(***************************************************************************)
(* SpecStroke: one stroke on a stroke mesh.                                *)
(***************************************************************************)
InitStroke ==
  /\ pc = "ready"
  /\ \E g \in StrokeMeshes : heap = <<g>>
  /\ pre = heap
  /\ \E p \in [geometry : {1},
               clickPoint : {Vec(24, 0, 0), Vec(0, 4, 0)},
               symmetryAxes : StrokeAxes,
               tool : Tools,
               brushSize : {16, 32},
               brushStrength : {100},
               pushToolPreviousPoint : PreviousPoints,
               invert : BOOLEAN,
               shouldSubdivide : {"unset", "true", "false"},
               cloneGeometry : BOOLEAN,
               ensureSymmetry : BOOLEAN] :
       /\ p.tool # "push" => p.pushToolPreviousPoint = Null
       /\ params = p
  /\ result = Null
  /\ calls = 0

CallApplySculptingStroke ==
  /\ pc = "ready"
  /\ \E r \in {applySculptingStroke(heap, params)} :
       /\ heap' = r.heap
       /\ result' = [geometry |-> r.geometry, modified |-> r.modified,
                     stages |-> r.stages]
  /\ pre' = heap
  /\ pc' = "done"
  /\ calls' = calls + 1
  /\ UNCHANGED params

NextStroke == CallApplySculptingStroke

SpecStroke == InitStroke /\ [][NextStroke]_vars

\* C4: a push stroke without a previous click point returns modified =
\* false and a mesh with the vertices and the triangles of the input mesh.
C4_PushStrokeIsNoOp ==
  (pc = "done" /\ params.tool = "push"
     /\ params.pushToolPreviousPoint = Null) =>
    /\ result.modified = FALSE
    /\ heap[result.geometry].position = pre[params.geometry].position
    /\ heap[result.geometry].index = pre[params.geometry].index
    /\ heap[result.geometry].hasIndex = pre[params.geometry].hasIndex

\* a push stroke without a previous point, shouldSubdivide left out, that
\* reports modified = false and returns a mesh with more vertices
C4_PushStrokeSubdivides ==
  /\ pc = "done"
  /\ params.tool = "push"
  /\ params.pushToolPreviousPoint = Null
  /\ params.shouldSubdivide = "unset"
  /\ ~params.ensureSymmetry
  /\ result.modified = FALSE
  /\ PositionCount(heap[result.geometry])
       > PositionCount(pre[params.geometry])

(***************************************************************************)
(* Further properties of subdivideSymmetrically, under SpecSubdivide.      *)
(***************************************************************************)
\* C11: the mesh subdivideSymmetrically returns has at least as many
\* vertices as the mesh it was given, indexed or not.
C11_NeverReducesVertexCount ==
  pc = "done" =>
    PositionCount(heap[result]) >= PositionCount(pre[params.geometry])

\* a triangle soup whose shared corners the fallback merged, returned with
\* fewer vertices than it came with although edges were split
C11_SoupLosesVertices ==
  /\ pc = "done"
  /\ ~pre[params.geometry].hasIndex
  /\ result # params.geometry
  /\ PositionCount(heap[result]) < PositionCount(pre[params.geometry])

\* the edges the call marked, after propagation
MarkedEdges ==
  EdgesToSubdivide(pre[params.geometry], params.localPoints,
                   params.localRadius, params.maxEdgeLength)

\* C12: subdivideSymmetrically returns the reference it was given, nothing
\* written, exactly when no edge is marked; when an edge is marked it returns
\* a new mesh object and the input mesh is as it was.
C12_SameReferenceIffNoEdgeMarked ==
  pc = "done" =>
    /\ (result = params.geometry) <=> (Len(MarkedEdges) = 0)
    /\ heap[params.geometry] = pre[params.geometry]
    /\ Len(MarkedEdges) = 0 => heap = pre
    /\ Len(MarkedEdges) > 0 =>
         /\ result \notin DOMAIN pre
         /\ result \in DOMAIN heap
         /\ \A r \in DOMAIN pre : heap[r] = pre[r]

\* a triangle soup with marked edges: the fallback merged its corners, a new
\* mesh came back
C12_Witness ==
  /\ pc = "done"
  /\ ~pre[params.geometry].hasIndex
  /\ Len(MarkedEdges) >= 2
  /\ result # params.geometry
  /\ heap[params.geometry] = pre[params.geometry]

(***************************************************************************)
(* BooleanOperations.join  (booleanOperations.ts 8-49, uvGenerator.ts)     *)
(*                                                                         *)
(* What join looks at in a geometry: whether it has a position attribute,  *)
(* its uv attribute ("none", "own" for the one it came with, "generated"   *)
(* for the spherical projection ensureUVs writes), its boundsTree ("none", *)
(* "own", "built") and whether it has groups.  params holds the two        *)
(* arguments, references into heap or null;   pc is the statement join is    *)
(* at; calls counts the invocations of the evaluator.                      *)
(***************************************************************************)
\* a boundsTree is built from the position attribute: a geometry without
\* positions has none
CsgGeometries ==
  {g \in [hasPosition : BOOLEAN, uv : {"none", "own"},
          boundsTree : {"none", "own"}, groups : BOOLEAN] :
     g.boundsTree = "own" => g.hasPosition}

\* a null reference
NoGeometry == 0

\* mutant: null is returned only when both arguments are missing
MissingArgumentBoth(p) == p.geometry1 = NoGeometry /\ p.geometry2 = NoGeometry

\* line 25: !geometry1 || !geometry2
MissingArgument(p) == p.geometry1 = NoGeometry \/ p.geometry2 = NoGeometry

\* mutant: the generated attribute is never set
ensureUVsForgets(g) == g

\* ensureUVs, uvGenerator.ts 10-46: the geometry as it leaves it
ensureUVs(g) ==
  IF g.uv # "none" THEN g
  ELSE IF ~g.hasPosition THEN g
  ELSE [g EXCEPT !.uv = "generated"]

\* new MeshBVH(geometry) reads the position attribute: without one it throws
CanBuildBVH(g) == g.hasPosition

\* ensureBVH, lines 8-12
ensureBVH(g) ==
  IF g.boundsTree # "none" THEN g ELSE [g EXCEPT !.boundsTree = "built"]

\* evaluator.evaluate(brushA, brushB, ADDITION), line 41: an opaque new
\* geometry that carries the attributes both brushes have
Evaluated(a, b) ==
  [hasPosition |-> TRUE,
   uv |-> IF a.uv # "none" /\ b.uv # "none" THEN "generated" ELSE "none",
   boundsTree |-> "none",
   groups |-> TRUE]

InitJoin ==
  /\ pc = "ready"
  /\ heap \in [1..2 -> CsgGeometries]
  /\ pre = heap
  /\ params \in [geometry1 : {NoGeometry, 1, 2}, geometry2 : {NoGeometry, 1, 2}]
  /\ result = NoGeometry
  /\ calls = 0

\* lines 25-27
JoinEnter ==
  /\ pc = "ready"
  /\ IF MissingArgument(params)
       THEN pc' = "done" /\ result' = NoGeometry
       ELSE pc' = "ensureUVs1" /\ result' = result
  /\ pre' = heap
  /\ UNCHANGED <<heap, params, calls>>

\* a statement that dereferences a missing argument throws
Dereference(ref, next) ==
  IF ref = NoGeometry THEN pc' = "threw" /\ UNCHANGED heap ELSE next

\* line 30
JoinEnsureUVs1 ==
  /\ pc = "ensureUVs1"
  /\ Dereference(params.geometry1,
       /\ heap' = [heap EXCEPT ![params.geometry1] = ensureUVs(@)]
       /\ pc' = "ensureBVH1")
  /\ UNCHANGED <<pre, params, result, calls>>

\* line 31
JoinEnsureBVH1 ==
  /\ pc = "ensureBVH1"
  /\ IF heap[params.geometry1].boundsTree = "none"
        /\ ~CanBuildBVH(heap[params.geometry1])
       THEN pc' = "threw" /\ UNCHANGED heap
       ELSE /\ heap' = [heap EXCEPT ![params.geometry1] = ensureBVH(@)]
            /\ pc' = "ensureUVs2"
  /\ UNCHANGED <<pre, params, result, calls>>

\* line 32
JoinEnsureUVs2 ==
  /\ pc = "ensureUVs2"
  /\ Dereference(params.geometry2,
       /\ heap' = [heap EXCEPT ![params.geometry2] = ensureUVs(@)]
       /\ pc' = "ensureBVH2")
  /\ UNCHANGED <<pre, params, result, calls>>

\* line 33
JoinEnsureBVH2 ==
  /\ pc = "ensureBVH2"
  /\ IF heap[params.geometry2].boundsTree = "none"
        /\ ~CanBuildBVH(heap[params.geometry2])
       THEN pc' = "threw" /\ UNCHANGED heap
       ELSE /\ heap' = [heap EXCEPT ![params.geometry2] = ensureBVH(@)]
            /\ pc' = "evaluate"
  /\ UNCHANGED <<pre, params, result, calls>>

\* lines 36-44: the brushes, the evaluator and its result
JoinEvaluate ==
  /\ pc = "evaluate"
  /\ heap' = Append(heap, Evaluated(heap[params.geometry1],
                                    heap[params.geometry2]))
  /\ result' = Len(heap) + 1
  /\ calls' = calls + 1
  /\ pc' = "clearGroups"
  /\ UNCHANGED <<pre, params>>

\* lines 47-49
JoinReturn ==
  /\ pc = "clearGroups"
  /\ heap' = [heap EXCEPT ![result].groups = FALSE]
  /\ pc' = "done"
  /\ UNCHANGED <<pre, params, result, calls>>

NextJoin ==
  \/ JoinEnter
  \/ JoinEnsureUVs1
  \/ JoinEnsureBVH1
  \/ JoinEnsureUVs2
  \/ JoinEnsureBVH2
  \/ JoinEvaluate
  \/ JoinReturn

SpecJoin == InitJoin /\ [][NextJoin]_vars

\* C13: with an argument missing, join returns null; the evaluator is never
\* invoked and no geometry gains a uv attribute or a boundsTree.
C13_JoinNullArgument ==
  (params.geometry1 = NoGeometry \/ params.geometry2 = NoGeometry) =>
    /\ pc \in {"ready", "done"}
    /\ pc = "done" => result = NoGeometry
    /\ calls = 0
    /\ heap = pre

\* join(m, null) has returned, m having neither uv nor boundsTree
C13_Witness ==
  /\ pc = "done"
  /\ params.geometry1 = 1
  /\ params.geometry2 = NoGeometry
  /\ heap[1].uv = "none"
  /\ heap[1].boundsTree = "none"
  /\ heap[1].hasPosition
  /\ result = NoGeometry

\* C14: when join hands its arguments to the evaluator both carry a uv
\* attribute and a boundsTree, a uv attribute a geometry came with is the one
\* it still has, and a join of two geometries with positions ends, without
\* an exception, in a result that is not null and has a uv attribute.
C14_EnsuredBeforeEvaluation ==
  /\ pc \in {"evaluate", "clearGroups"} \/ calls > 0 =>
       \A ref \in {params.geometry1, params.geometry2} :
         /\ heap[ref].uv # "none"
         /\ heap[ref].boundsTree # "none"
  /\ \A ref \in DOMAIN pre :
       pre[ref].uv = "own" => heap[ref].uv = "own"
  /\ pc = "threw" =>
       \E ref \in {params.geometry1, params.geometry2} :
         ~heap[ref].hasPosition
  /\ (pc = "done" /\ params.geometry1 # NoGeometry
        /\ params.geometry2 # NoGeometry) =>
       /\ result \in DOMAIN heap
       /\ result \notin DOMAIN pre
       /\ heap[result].uv # "none"

\* two different geometries without uv have been joined
C14_Witness ==
  /\ pc = "done"
  /\ params.geometry1 = 1
  /\ params.geometry2 = 2
  /\ pre[1].uv = "none"
  /\ pre[2].uv = "none"
  /\ heap[1].uv = "generated"
  /\ heap[2].uv = "generated"
  /\ calls = 1
  /\ result = 3

(***************************************************************************)
(* Mirror symmetry of a deformation, under SpecDeform.                     *)
(***************************************************************************)
FlipX(v) == Flip(v, Axes(TRUE, FALSE, FALSE))

\* every vertex of g has its reflection in x = 0 among the vertices, with
\* the reflected normal
MirrorSymmetricX(g) ==
  \A i \in DOMAIN g.position :
    \E j \in DOMAIN g.position :
      /\ g.position[j] = FlipX(g.position[i])
      /\ g.hasNormal => g.normal[j] = FlipX(g.normal[i])

\* the symmetry points are those of x symmetry alone
XSymmetryOnly ==
  /\ Len(params.symmetryPoints) = 2
  /\ params.symmetryPoints[2] = FlipX(params.symmetryPoints[1])

Displaced(i) == heap[1].position[i] # pre[1].position[i]

\* vertex j was displaced to within 0.01 of the reflection of vertex i
MirrorsDisplaced(i, j) ==
  /\ Displaced(j)
  /\ DistSq(heap[1].position[j], FlipX(heap[1].position[i]))
       < RepairTolerance * RepairTolerance

\* C15: after an add or subtract with x symmetry on a mesh mirror-symmetric
\* about x = 0, every displaced vertex has a displaced vertex within 0.01 of
\* the reflection of its new position.
C15_StrokeKeepsMirrorSymmetry ==
  (pc = "done" /\ params.tool \in {"add", "subtract"} /\ XSymmetryOnly
     /\ MirrorSymmetricX(pre[1])) =>
    \A i \in DOMAIN heap[1].position :
      Displaced(i) => \E j \in DOMAIN heap[1].position : MirrorsDisplaced(i, j)

\* both brushes reached a vertex and its mirror vertex, and the two ended
\* more than 0.01 from each other's reflection
C15_OverlapBreaksSymmetry ==
  /\ pc = "done"
  /\ params.tool = "add"
  /\ ~params.invert
  /\ XSymmetryOnly
  /\ MirrorSymmetricX(pre[1])
  /\ \E i, j \in DOMAIN pre[1].position :
       /\ pre[1].position[j] = FlipX(pre[1].position[i])
       /\ \A k \in {i, j}, q \in 1..2 :
            InBrush(pre[1].position[k], params.symmetryPoints[q],
                    params.brushSize)
       /\ Displaced(i)
       /\ Displaced(j)
       /\ ~MirrorsDisplaced(i, j)

(***************************************************************************)
(* SceneObject: the geometry of one object  (SceneObject.tsx 58-134)       *)
(*                                                                         *)
(* heap is the state of the component and of its parent: geometryRef,      *)
(* meshGeometry and geometryVersion are the refs, geometryUpdateCounter    *)
(* the state that triggers the reporting effect and reportedCounter its    *)
(* value when that effect last ran (-1: never), objectGeometries the       *)
(* parent's entry for the object, initialGeometry the prop as last         *)
(* rendered and effectSeen the prop the initialGeometry effect last ran    *)
(* with (-1: never).  Geometries are numbers, 0 is undefined; calls counts *)
(* the geometries made so far.  params holds, for every stroke, the result *)
(* useSculpting has for it: the version it started from and the geometry   *)
(* it computed.  pc names the step taken last, pre is the state before it. *)
(***************************************************************************)
Undefined == 0
NotRun == -1

Strokes == 1..MaxStrokes

\* mutant: the accepted update leaves the version as it was
InstallKeepsVersion(scene, newGeometry) ==
  [scene EXCEPT !.geometryRef = newGeometry,
                !.meshGeometry = newGeometry,
                !.geometryUpdateCounter = @ + 1]

\* lines 117-131 (and 78-86): the new geometry in the refs, the version and
\* the counter one up
Install(scene, newGeometry) ==
  [scene EXCEPT !.geometryRef = newGeometry,
                !.meshGeometry = newGeometry,
                !.geometryVersion = @ + 1,
                !.geometryUpdateCounter = @ + 1]

\* lines 59-63: initialGeometry || PrimitiveFactory.createGeometry(type, scale)
InitScene ==
  /\ pc = "mount"
  /\ \E prop \in {Undefined, 1} :
       heap = [geometryRef |-> 1, meshGeometry |-> 1, geometryVersion |-> 0,
               geometryUpdateCounter |-> 0, reportedCounter |-> NotRun,
               objectGeometries |-> prop, initialGeometry |-> prop,
               effectSeen |-> NotRun]
  /\ pre = heap
  /\ params = [k \in Strokes |->
                 [status |-> "idle", startingVersion |-> 0,
                  newGeometry |-> Undefined]]
  /\ result = [stroke |-> 0, returned |-> FALSE]
  /\ calls = 1

\* useSculpting: a stroke reads the version, and computes its geometry: the
\* one it was given, written in place, or a new one; the strokes are numbered
\* in the order they start, and none starts before the effects of the mount
\* have run
StrokeCompute(k) ==
  /\ params[k].status = "idle"
  /\ heap.effectSeen # NotRun
  /\ heap.reportedCounter # NotRun
  /\ \A j \in 1..(k - 1) : params[j].status # "idle"
  /\ \E fresh \in {FALSE} \cup {calls < MaxGeometries} :
       /\ params' = [params EXCEPT ![k] =
                       [status |-> "computed",
                        startingVersion |-> heap.geometryVersion,
                        newGeometry |-> IF fresh THEN calls + 1
                                        ELSE heap.geometryRef]]
       /\ calls' = IF fresh THEN calls + 1 ELSE calls
  /\ pc' = "sculpt"
  /\ pre' = heap
  /\ UNCHANGED <<heap, result>>

\* lines 110-134
OnGeometryUpdate(k) ==
  /\ params[k].status = "computed"
  /\ IF heap.geometryVersion # params[k].startingVersion
       THEN /\ result' = [stroke |-> k, returned |-> FALSE]
            /\ params' = [params EXCEPT ![k].status = "discarded"]
            /\ heap' = heap
       ELSE /\ result' = [stroke |-> k, returned |-> TRUE]
            /\ params' = [params EXCEPT ![k].status = "applied"]
            /\ heap' = Install(heap, params[k].newGeometry)
  /\ pc' = "onGeometryUpdate"
  /\ pre' = heap
  /\ UNCHANGED calls

\* lines 76-88: the effect runs when the prop is not the one it last ran with
InitialGeometryEffect ==
  /\ heap.effectSeen # heap.initialGeometry
  /\ heap.geometryVersion < MaxVersion
  /\ LET seen == [heap EXCEPT !.effectSeen = heap.initialGeometry]
     IN heap' = IF heap.initialGeometry # Undefined
                   /\ heap.initialGeometry # heap.geometryRef
                  THEN Install(seen, heap.initialGeometry)
                  ELSE seen
  /\ pc' = "initialGeometryEffect"
  /\ pre' = heap
  /\ UNCHANGED <<params, result, calls>>

\* lines 91-99 and ModelingCanvas.tsx 212-214: the effect reports the
\* current geometry and the parent stores it
ReportEffect ==
  /\ heap.reportedCounter # heap.geometryUpdateCounter
  /\ heap' = [heap EXCEPT !.reportedCounter = heap.geometryUpdateCounter,
                          !.objectGeometries = heap.geometryRef]
  /\ pc' = "reportEffect"
  /\ pre' = heap
  /\ UNCHANGED <<params, result, calls>>

\* ModelingCanvas.tsx 793: the parent renders, the prop is its entry
ParentRender ==
  /\ heap.initialGeometry # heap.objectGeometries
  /\ heap' = [heap EXCEPT !.initialGeometry = heap.objectGeometries]
  /\ pc' = "render"
  /\ pre' = heap
  /\ UNCHANGED <<params, result, calls>>

\* toolDefinitions.ts 237-243 and 266-272: undo or redo puts a clone of a
\* geometry of the history in the parent's entry
UndoRedo ==
  /\ calls < MaxGeometries
  /\ heap' = [heap EXCEPT !.objectGeometries = calls + 1]
  /\ calls' = calls + 1
  /\ pc' = "undoRedo"
  /\ pre' = heap
  /\ UNCHANGED <<params, result>>

NextScene ==
  \/ \E k \in Strokes : StrokeCompute(k)
  \/ \E k \in Strokes : OnGeometryUpdate(k)
  \/ InitialGeometryEffect
  \/ ReportEffect
  \/ ParentRender
  \/ UndoRedo

SpecScene == InitScene /\ [][NextScene]_vars

\* C16: onGeometryUpdate discards an update whose startingVersion is not the
\* current version (false, geometry and version as they were), installs one
\* whose startingVersion is the current version and raises the version by
\* one; of two updates computed against the same version at most one is
\* applied; the version never decreases.
C16_VersionCompareAndSwap ==
  /\ pc = "onGeometryUpdate" =>
       LET update == params[result.stroke]
       IN /\ result.returned <=> update.startingVersion = pre.geometryVersion
          /\ ~result.returned => heap = pre
          /\ result.returned =>
               /\ heap.geometryRef = update.newGeometry
               /\ heap.meshGeometry = update.newGeometry
               /\ heap.geometryVersion = pre.geometryVersion + 1
  /\ \A j, k \in Strokes :
       (j # k /\ params[j].status = "applied" /\ params[k].status = "applied")
         => params[j].startingVersion # params[k].startingVersion
  /\ heap.geometryVersion >= pre.geometryVersion

\* two updates computed against the same version: the first was installed,
\* the second has just been discarded
C16_Witness ==
  /\ pc = "onGeometryUpdate"
  /\ ~result.returned
  /\ \E j \in Strokes :
       /\ j # result.stroke
       /\ params[j].status = "applied"
       /\ params[j].startingVersion = params[result.stroke].startingVersion
       /\ params[j].newGeometry # params[result.stroke].newGeometry
       /\ heap.geometryRef = params[j].newGeometry

(***************************************************************************)
(* Further properties of applySculptingStroke, under SpecStroke.           *)
(***************************************************************************)
\* C17: when applySculptingStroke returns modified = true, the normals, the
\* bounding box and the bounding sphere of the returned mesh are those of
\* its positions and triangles as returned.
C17_NormalsAndBoundsFresh ==
  (pc = "done" /\ result.modified) =>
    LET g == heap[result.geometry]
    IN /\ g.hasNormal
       /\ g.normal = computeVertexNormals(g).normal
       /\ g.boundingBox.isSet
       /\ g.boundingBox = computeBoundingBox(g).boundingBox
       /\ g.boundingSphere.isSet
       /\ g.boundingSphere = computeBoundingSphere(g).boundingSphere

\* a stroke that subdivided the mesh and then moved a vertex away from the
\* plane of the strip: the normals and the box are no longer those the
\* subdivision computed
C17_Witness ==
  /\ pc = "done"
  /\ result.modified
  /\ PositionCount(heap[result.geometry])
       > PositionCount(pre[params.geometry])
  /\ heap[result.geometry].boundingBox.max[2] > 0
  /\ \E i \in DOMAIN heap[result.geometry].normal :
       heap[result.geometry].normal[i] # Vec(0, NormScale, 0)
\* C18: with cloneGeometry = true the mesh the caller passed is as it was
\* (positions, normals, indices, bounds) and the mesh returned is another
\* object.
C18_CloneLeavesInputUntouched ==
  (pc = "done" /\ params.cloneGeometry) =>
    /\ heap[params.geometry] = pre[params.geometry]
    /\ result.geometry # params.geometry

\* a cloning stroke that subdivided, repaired and moved a vertex
C18_Witness ==
  /\ pc = "done"
  /\ params.cloneGeometry
  /\ params.ensureSymmetry
  /\ result.modified
  /\ PositionCount(heap[result.geometry])
       > PositionCount(pre[params.geometry])
  /\ heap[params.geometry] = pre[params.geometry]

\* the order of the stages of a stroke
StageOrder == <<"symmetry", "subdivide", "repair", "deform", "recompute">>

StageRank(stage) == CHOOSE i \in DOMAIN StageOrder : StageOrder[i] = stage

\* C19: the stages of a stroke run in the order symmetry points,
\* subdivision, repair, deformation, recomputation, and the repair runs in
\* every stroke called with ensureSymmetry = true, whatever shouldSubdivide.
C19_RepairWheneverRequested ==
  pc = "done" =>
    /\ \A i, j \in DOMAIN result.stages :
         i < j => StageRank(result.stages[i]) < StageRank(result.stages[j])
    /\ params.ensureSymmetry =>
         \E i \in DOMAIN result.stages : result.stages[i] = "repair"

\* a stroke with ensureSymmetry = true and shouldSubdivide = false on a mesh
\* the repair would have completed: no repair ran, the mesh returned has the
\* vertices it came with
C19_RepairSkippedWithoutSubdivision ==
  /\ pc = "done"
  /\ params.ensureSymmetry
  /\ params.shouldSubdivide = "false"
  /\ \A i \in DOMAIN result.stages : result.stages[i] # "repair"
  /\ result.modified
  /\ ensureGeometrySymmetry(pre, params.geometry, params.symmetryAxes,
                            RepairTolerance).geometry # params.geometry
  /\ PositionCount(heap[result.geometry])
       = PositionCount(pre[params.geometry])
(***************************************************************************)
(* The mirror configuration applyDeformation infers, under SpecSym.        *)
(***************************************************************************)
\* C20: for every symmetry point after the first, the mirror configuration
\* inferred from the signs of its coordinates and those of the click point
\* is the set of axes calculateSymmetryPoints negated to make it, for every
\* click point, a zero coordinate on an enabled axis included.
C20_InferredConfigIsNegatedAxes ==
  pc = "done" =>
    \A i \in 2..Len(result) :
      InferMirrorConfig(result[i], params.localPoint)
        = mirrorConfigs(params.symmetryAxes)[i - 1]

\* a click point on the plane x = 0 with the x axis enabled: the point made
\* by negating x is inferred as not mirrored at all
C20_ZeroCoordinateNotInferred ==
  /\ pc = "done"
  /\ params.symmetryAxes = Axes(TRUE, FALSE, FALSE)
  /\ params.localPoint[1] = 0
  /\ params.localPoint[2] # 0
  /\ mirrorConfigs(params.symmetryAxes)[1] = Axes(TRUE, FALSE, FALSE)
  /\ result[2] = Flip(params.localPoint, Axes(TRUE, FALSE, FALSE))
  /\ InferMirrorConfig(result[2], params.localPoint)
       = Axes(FALSE, FALSE, FALSE)
(***************************************************************************)
(* Further properties of applyDeformation, under SpecDeform.               *)
(***************************************************************************)
\* the direction applyDeformation computes for symmetry point symIdx (from
\* 1), Null when the point is skipped
DirectionFor(symIdx) ==
  calculateDirection(params.tool,
                     calculateAverageNormal(pre[params.geometry],
                                            params.clickPoint,
                                            params.brushSize),
                     params.clickPoint, params.previousPoint,
                     IF symIdx = 1 THEN Null
                     ELSE InferMirrorConfig(params.symmetryPoints[symIdx],
                                            params.clickPoint))

\* vertex i of the mesh as it came lies strictly within brushSize of
\* symmetry point j
VertexInBrush(i, j) ==
  DistSq(pre[params.geometry].position[i], params.symmetryPoints[j])
    < params.brushSize * params.brushSize

\* C21: applyDeformation returns true exactly when a vertex lies strictly
\* within brushSize of a symmetry point that is not skipped; a vertex at
\* distance >= brushSize from every symmetry point keeps its position; a
\* brush that encloses no vertex changes nothing and false is returned.
C21_ModifiedIffVertexInBrush ==
  pc = "done" =>
    LET verts == DOMAIN pre[params.geometry].position
        syms == DOMAIN params.symmetryPoints
    IN /\ result <=> \E i \in verts, j \in syms :
                       DirectionFor(j) # Null /\ VertexInBrush(i, j)
       /\ \A i \in verts :
            (\A j \in syms : ~VertexInBrush(i, j)) =>
              heap[params.geometry].position[i]
                = pre[params.geometry].position[i]
       /\ (\A i \in verts, j \in syms : ~VertexInBrush(i, j)) =>
            (heap = pre /\ result = FALSE)

\* a brush that moved a vertex and left alone one on its rim, at distance
\* brushSize exactly
C21_Witness ==
  /\ pc = "done"
  /\ result = TRUE
  /\ \E i, k \in DOMAIN pre[params.geometry].position :
       /\ VertexInBrush(i, 1)
       /\ heap[params.geometry].position[i]
            # pre[params.geometry].position[i]
       /\ \A j \in DOMAIN params.symmetryPoints : ~VertexInBrush(k, j)
       /\ DistSq(pre[params.geometry].position[k], params.symmetryPoints[1])
            = params.brushSize * params.brushSize
       /\ heap[params.geometry].position[k]
            = pre[params.geometry].position[k]
\* a direction of no length: the null calculateDirection returns, or the
\* zero vector
Degenerate(direction) == direction = Null \/ direction = ZeroVec

\* C22: a symmetry point whose direction is degenerate, for any tool, is
\* skipped; when the direction of every symmetry point is degenerate no
\* vertex is displaced and modified is not set.
C22_DegenerateDirectionSkipped ==
  pc = "done" =>
    ((\A j \in DOMAIN params.symmetryPoints : Degenerate(DirectionFor(j)))
       => (result = FALSE /\ heap = pre))

\* an add whose brush holds two vertices with opposite normals: the average
\* normal is the zero vector, nothing moved, and true is returned
C22_ZeroNormalSetsModified ==
  /\ pc = "done"
  /\ params.tool = "add"
  /\ pre[params.geometry].hasNormal
  /\ \A j \in DOMAIN params.symmetryPoints : DirectionFor(j) = ZeroVec
  /\ \E i \in DOMAIN pre[params.geometry].position : VertexInBrush(i, 1)
  /\ heap = pre
  /\ result = TRUE
(***************************************************************************)
(* SpecRetriangulate: the midpoints and the pattern switch of              *)
(* subdivideSymmetrically (symmetricSubdivision.ts 158-271) applied to a   *)
(* strip and to any set of its edges, so that each of the eight patterns   *)
(* occurs.  params holds vertices, indexArray and edgesToSubdivide as the  *)
(* statements before line 158 left them, result the new vertices and the   *)
(* new index.                                                              *)
(***************************************************************************)
\* the edge keys of an index array
EdgeKeys(indexArray) ==
  UNION {Range(TriEdges(indexArray, t)) :
           t \in 0..(Triangles(indexArray) - 1)}

\* a set of edge keys in the order a Set may hold them: by rising key
RECURSIVE Ascending(_)
Ascending(keys) ==
  IF keys = {} THEN <<>>
  ELSE LET first == CHOOSE e \in keys :
                      \A f \in keys : e[1] < f[1]
                                       \/ (e[1] = f[1] /\ e[2] <= f[2])
       IN <<first>> \o Ascending(keys \ {first})

Reverse(seq) == [k \in 1..Len(seq) |-> seq[Len(seq) + 1 - k]]

InitRetriangulate ==
  /\ pc = "ready"
  /\ heap = NoHeap
  /\ pre = NoHeap
  /\ \E k \in 1..MaxTris :
       \E p \in StripPositions(k + 2),
          index \in {StripIndex(k)}
                      \cup {StripIndex(k - 1) \o <<0, 0, 1>> : j \in 2..k} :
         \E marked \in SUBSET EdgeKeys(index) :
           \E edges \in {Ascending(marked), Reverse(Ascending(marked))} :
             params = [vertices |-> p, indexArray |-> index,
                       edgesToSubdivide |-> edges]
  /\ result = Null
  /\ calls = 0

CallRetriangulate ==
  /\ pc = "ready"
  /\ result' = [newVertices |-> NewVertices(params.vertices,
                                            params.edgesToSubdivide),
                newIndices |-> SubdivideTriangles(params.indexArray,
                                                  params.edgesToSubdivide,
                                                  Len(params.vertices))]
  /\ pc' = "done"
  /\ calls' = calls + 1
  /\ UNCHANGED <<heap, pre, params>>

NextRetriangulate == CallRetriangulate

SpecRetriangulate == InitRetriangulate /\ [][NextRetriangulate]_vars

\* side k (1: 01, 2: 12, 3: 20) of input triangle t carries a midpoint
HasMidpoint(t, k) ==
  TriEdges(params.indexArray, t)[k] \in Range(params.edgesToSubdivide)

\* the number of sides of input triangle t that carry a midpoint
MidpointCount(t) == Cardinality({k \in 1..3 : HasMidpoint(t, k)})

\* the pattern of input triangle t, 0 to 7
PatternOf(t) ==
  (IF HasMidpoint(t, 1) THEN 1 ELSE 0) + (IF HasMidpoint(t, 2) THEN 2 ELSE 0)
    + (IF HasMidpoint(t, 3) THEN 4 ELSE 0)

\* the index of the midpoint of a marked edge
MidpointIndex(edge) ==
  Len(params.vertices)
    + (CHOOSE k \in DOMAIN params.edgesToSubdivide :
         params.edgesToSubdivide[k] = edge) - 1

\* the number of output triangles before the children of input triangle t
RECURSIVE ChildOffset(_)
ChildOffset(t) ==
  IF t = 0 THEN 0 ELSE ChildOffset(t - 1) + 1 + MidpointCount(t - 1)

\* output triangle c, as its three indices
OutTriangle(c) ==
  <<result.newIndices[3 * c + 1], result.newIndices[3 * c + 2],
    result.newIndices[3 * c + 3]>>

\* the corners of input triangle t and the midpoints of its marked sides
OwnIndices(t) ==
  {Corner(params.indexArray, t, k) : k \in 0..2}
    \cup {MidpointIndex(TriEdges(params.indexArray, t)[k]) :
            k \in {j \in 1..3 : HasMidpoint(t, j)}}

\* C23: an input triangle with m sides that carry a midpoint is replaced by
\* 1 + m triangles on its own corners and midpoints, the triangle itself
\* when m = 0; the output has the sum of 1 + m triangles.
C23_ChildCountPerPattern ==
  pc = "done" =>
    LET n == Triangles(params.indexArray)
    IN /\ Len(result.newIndices) = 3 * ChildOffset(n)
       /\ \A t \in 0..(n - 1) :
            /\ \A c \in ChildOffset(t)..(ChildOffset(t + 1) - 1) :
                 /\ 3 * c + 3 <= Len(result.newIndices)
                 /\ Range(OutTriangle(c)) \subseteq OwnIndices(t)
            /\ MidpointCount(t) = 0 =>
                 (3 * ChildOffset(t) + 3 <= Len(result.newIndices)
                  /\ OutTriangle(ChildOffset(t))
                       = <<Corner(params.indexArray, t, 0),
                           Corner(params.indexArray, t, 1),
                           Corner(params.indexArray, t, 2)>>)

\* a strip of two triangles, one with all three sides marked and one with
\* one: 4 + 2 triangles
C23_Witness ==
  /\ pc = "done"
  /\ Triangles(params.indexArray) = 2
  /\ PatternOf(0) = 7
  /\ PatternOf(1) \in {1, 2, 4}
  /\ Len(result.newIndices) = 18
\* twice the place of output vertex i when every midpoint lies on its edge:
\* a vertex of the input, or the middle of the marked edge it was made for
PlaceOnEdge(i) ==
  IF i < Len(params.vertices) THEN VScale(At(params.vertices, i), 2)
  ELSE LET edge == params.edgesToSubdivide[i - Len(params.vertices) + 1]
       IN VAdd(At(params.vertices, edge[1]), At(params.vertices, edge[2]))

\* the area vector of a triangle of output vertices (eight times it): its
\* length is the area, its direction the winding
AreaVector(tri) ==
  Cross(VSub(PlaceOnEdge(tri[2]), PlaceOnEdge(tri[1])),
        VSub(PlaceOnEdge(tri[3]), PlaceOnEdge(tri[1])))

Dot(a, b) == a[1] * b[1] + a[2] * b[2] + a[3] * b[3]

\* the area vectors of output triangles from .. (to - 1), added up
RECURSIVE AreaSum(_, _)
AreaSum(from, to) ==
  IF from >= to THEN ZeroVec
  ELSE VAdd(AreaVector(OutTriangle(from)), AreaSum(from + 1, to))

\* input triangle t, as its three indices
InTriangle(t) ==
  <<Corner(params.indexArray, t, 0), Corner(params.indexArray, t, 1),
    Corner(params.indexArray, t, 2)>>

\* C24: with the midpoints on the edges, every child triangle has the
\* winding of its parent, and the areas of the children add up to the area
\* of the parent, for each pattern.
C24_WindingAndAreaKept ==
  pc = "done" =>
    \A t \in 0..(Triangles(params.indexArray) - 1) :
      LET parent == AreaVector(InTriangle(t))
      IN /\ AreaSum(ChildOffset(t), ChildOffset(t + 1)) = parent
         /\ \A c \in ChildOffset(t)..(ChildOffset(t + 1) - 1) :
              IF parent = ZeroVec THEN AreaVector(OutTriangle(c)) = ZeroVec
              ELSE Dot(AreaVector(OutTriangle(c)), parent) > 0

\* every pattern with two marked sides on a triangle that has an area,
\* its three children wound as it is
C24_Witness ==
  /\ pc = "done"
  /\ Triangles(params.indexArray) = 2
  /\ PatternOf(0) = 5
  /\ PatternOf(1) \in {3, 6}
  /\ AreaVector(InTriangle(0)) # ZeroVec
  /\ AreaVector(InTriangle(1)) # ZeroVec
  /\ \A c \in 0..5 : Dot(AreaVector(OutTriangle(c)),
                         AreaVector(InTriangle(c \div 3))) > 0
\* the sides of output triangle c, as edge keys
OutSides(c) ==
  LET tri == OutTriangle(c)
  IN {makeEdgeKey(tri[1], tri[2]), makeEdgeKey(tri[2], tri[3]),
      makeEdgeKey(tri[3], tri[1])}

\* C30: with an edge marked, the output has the input's vertices, as they
\* were, and then one midpoint for each marked edge; every triangle with a
\* marked side is split through the midpoint of that edge (its children join
\* either end of the side to that midpoint), and no output triangle has a
\* marked edge as a side.
C30_OneMidpointPerMarkedEdge ==
  (pc = "done" /\ Len(params.edgesToSubdivide) > 0) =>
    LET n == Len(params.vertices)
        out == Triangles(result.newIndices)
    IN /\ Len(result.newVertices) = n + Len(params.edgesToSubdivide)
       /\ \A i \in 1..n : result.newVertices[i] = params.vertices[i]
       /\ \A c \in 0..(out - 1) :
            OutSides(c) \cap Range(params.edgesToSubdivide) = {}
       /\ \A t \in 0..(Triangles(params.indexArray) - 1) :
            \A k \in {j \in 1..3 : HasMidpoint(t, j)} :
              LET edge == TriEdges(params.indexArray, t)[k]
                  m == MidpointIndex(edge)
                  children == ChildOffset(t)..(ChildOffset(t + 1) - 1)
              IN /\ m >= n /\ m < Len(result.newVertices)
                 /\ \E c \in children : makeEdgeKey(edge[1], m) \in OutSides(c)
                 /\ \E c \in children : makeEdgeKey(edge[2], m) \in OutSides(c)

\* two triangles that share a marked edge: both are split through the one
\* midpoint made for it
C30_Witness ==
  /\ pc = "done"
  /\ Triangles(params.indexArray) = 2
  /\ Len(params.edgesToSubdivide) = 2
  /\ Len(result.newVertices) = Len(params.vertices) + 2
  /\ \E e \in Range(params.edgesToSubdivide) :
       /\ e \in Range(TriEdges(params.indexArray, 0))
       /\ e \in Range(TriEdges(params.indexArray, 1))
       /\ \E c \in 0..(ChildOffset(1) - 1), d \in ChildOffset(1)..(ChildOffset(2) - 1) :
            /\ MidpointIndex(e) \in Range(OutTriangle(c))
            /\ MidpointIndex(e) \in Range(OutTriangle(d))
(***************************************************************************)
(* SpecPropagate: the propagation loop of subdivideSymmetrically           *)
(* (symmetricSubdivision.ts 103-151), one pass at a time, on a strip of    *)
(* MaxChain triangles and on a small mesh with a triangle listed twice and *)
(* a degenerate one, from sets of marked edges.  params holds              *)
(* indexArray and the edges marked before the loop; heap the variables of  *)
(* the loop; pre their values before the last pass; pc is "mark" before    *)
(* the loop, "loop" at its condition, "done" after it.                     *)
(***************************************************************************)
PropagateMeshes ==
  {StripIndex(MaxChain), StripIndex(2) \o <<0, 1, 2>> \o <<0, 0, 1>>}

\* the edges the marking may have marked: any edge of the small mesh, any
\* edge on the rim of the strip (the propagation marks the inner ones)
MarkCandidates(indexArray) ==
  IF Triangles(indexArray) <= 4 THEN EdgeKeys(indexArray)
  ELSE {e \in EdgeKeys(indexArray) :
          Len(buildEdgeAdjacency(indexArray, e)) = 1}

InitPropagate ==
  /\ pc = "mark"
  /\ \E index \in PropagateMeshes :
       params = [indexArray |-> index, edgesToSubdivide |-> <<>>]
  /\ heap = [edgesToSubdivide |-> <<>>, changed |-> TRUE, iterations |-> 0]
  /\ pre = heap
  /\ result = Null
  /\ calls = 0

\* lines 65-105: the marking loop leaves some set of edges of the mesh,
\* whatever the positions are; changed = true, iterations = 0
PropagateEnter ==
  /\ pc = "mark"
  /\ \E marked \in SUBSET MarkCandidates(params.indexArray) :
       /\ params' = [params EXCEPT !.edgesToSubdivide = Ascending(marked)]
       /\ heap' = [edgesToSubdivide |-> Ascending(marked),
                   changed |-> TRUE, iterations |-> 0]
  /\ pre' = heap'
  /\ pc' = "loop"
  /\ UNCHANGED <<result, calls>>

\* lines 106-150: one turn of the while loop
PropagateLoopPass ==
  /\ pc = "loop"
  /\ heap.changed /\ ~PassLimitReached(heap.iterations)
  /\ \E edgesToAdd \in {PropagatePass(params.indexArray,
                                       heap.edgesToSubdivide)} :
       heap' = [edgesToSubdivide |-> heap.edgesToSubdivide \o edgesToAdd,
                changed |-> edgesToAdd # <<>>,
                iterations |-> heap.iterations + 1]
  /\ pre' = heap
  /\ UNCHANGED <<pc, params, result, calls>>

\* line 106: the condition of the loop is false
PropagateLoopExit ==
  /\ pc = "loop"
  /\ ~(heap.changed /\ ~PassLimitReached(heap.iterations))
  /\ pc' = "done"
  /\ result' = heap.edgesToSubdivide
  /\ calls' = calls + 1
  /\ UNCHANGED <<heap, pre, params>>

NextPropagate == PropagateEnter \/ PropagateLoopPass \/ PropagateLoopExit

SpecPropagate == InitPropagate /\ [][NextPropagate]_vars

\* the loop is a sequence of statements: once entered, its next statement
\* is executed
SpecPropagateFair ==
  SpecPropagate /\ WF_vars(PropagateLoopPass) /\ WF_vars(PropagateLoopExit)

IsPrefix(a, b) == Len(a) <= Len(b) /\ \A k \in DOMAIN a : a[k] = b[k]

\* the loop so far: at most MaxPasses passes, edges only added, and no
\* pass after one that added nothing
PropagateBounded ==
  /\ heap.iterations <= MaxPasses
  /\ IsPrefix(params.edgesToSubdivide, pre.edgesToSubdivide)
  /\ IsPrefix(pre.edgesToSubdivide, heap.edgesToSubdivide)
  /\ heap.iterations > 0 =>
       /\ pre.iterations = heap.iterations - 1
       /\ heap.changed <=> Len(heap.edgesToSubdivide) > Len(pre.edgesToSubdivide)
       /\ pre.changed
  /\ pc = "done" =>
       /\ ~heap.changed \/ heap.iterations = MaxPasses
       /\ result = Propagate(params.indexArray, params.edgesToSubdivide, 0)

\* C25: the propagation loop terminates for every adjacency: it runs at
\* most 5 passes, only ever adds edges to the marked set, and stops after
\* the first pass that marks no new edge.
C25_PropagationTerminates ==
  []PropagateBounded /\ (pc = "loop" ~> pc = "done")

\* a chain that needs a sixth pass: the loop stopped after five passes that
\* each marked an edge, a triangle left with two marked sides
C25_Witness ==
  /\ pc = "done"
  /\ heap.iterations = MaxPasses
  /\ heap.changed
  /\ Len(result) = Len(params.edgesToSubdivide) + MaxPasses
  /\ PropagatePass(params.indexArray, result) # <<>>
\* the geometries that accepted strokes installed
AcceptedResults ==
  {params[k].newGeometry : k \in {j \in Strokes : params[j].status = "applied"}}

\* C27: geometryRef is replaced only by an accepted stroke result or, in the
\* initialGeometry effect, by a geometry that is no stroke result (the clone
\* of an undo or redo): the echo of a reported geometry never puts an
\* accepted stroke result back in geometryRef.
C27_EchoNeverReverts ==
  /\ heap.geometryRef # pre.geometryRef =>
       pc \in {"onGeometryUpdate", "initialGeometryEffect"}
  /\ (pc = "initialGeometryEffect" /\ heap.geometryRef # pre.geometryRef) =>
       heap.geometryRef \notin AcceptedResults

\* two strokes accepted one after the other, each with a geometry of its
\* own; the initialGeometry effect has just replaced the result of the
\* later one with the result of the earlier one
C27_EchoRevertsToOlderStroke ==
  /\ pc = "initialGeometryEffect"
  /\ \E j, k \in Strokes :
       /\ j < k
       /\ params[j].status = "applied"
       /\ params[k].status = "applied"
       /\ params[j].startingVersion < params[k].startingVersion
       /\ pre.geometryRef = params[k].newGeometry
       /\ heap.geometryRef = params[j].newGeometry
       /\ heap.geometryRef # pre.geometryRef
       /\ heap.meshGeometry = params[j].newGeometry

(***************************************************************************)
(* SpecMirror: the mirror-triangle loop of ensureGeometrySymmetry          *)
(* (ensureGeometrySymmetry.ts 101-145) applied to one or two triangles on  *)
(* MaxVerts + 2 vertices and to every pairing the loop before it can       *)
(* leave with a vertex created.  params holds the number of vertices of    *)
(* the input, indexArray and vertexToMirror; result is newIndices.         *)
(***************************************************************************)
\* what the pairing loop decides for the vertices of the input: itself (on
\* the plane), another vertex of the input, or -1 for a vertex it creates
Pairings(n) ==
  {m \in [0..(n - 1) -> -1..(n - 1)] :
     /\ \A i \in 0..(n - 1) : m[i] >= 0 => m[m[i]] = i
     /\ \E i \in 0..(n - 1) : m[i] = -1}

\* lines 88-93: the created vertices take the indices after the input's, in
\* the order of the vertices they mirror
CreatedIndex(n, m, i) == n + Cardinality({j \in 0..(i - 1) : m[j] = -1})

\* vertexToMirror as the pairing loop leaves it
MirrorMap(n, m) ==
  LET created == Cardinality({i \in 0..(n - 1) : m[i] = -1})
  IN [v \in 0..(n + created - 1) |->
        IF v >= n
          THEN CHOOSE i \in 0..(n - 1) :
                 m[i] = -1 /\ CreatedIndex(n, m, i) = v
        ELSE IF m[v] = -1 THEN CreatedIndex(n, m, v)
        ELSE m[v]]

InitMirror ==
  /\ pc = "ready"
  /\ heap = NoHeap
  /\ pre = NoHeap
  /\ \E n \in {MaxVerts + 2} :
       \E m \in Pairings(n),
          first \in {<<0, 1, 2>>},
          second \in {<<>>} \cup [1..3 -> 0..(n - 1)] :
         params = [vertexCount |-> n, indexArray |-> first \o second,
                   vertexToMirror |-> MirrorMap(n, m)]
  /\ result = Null
  /\ calls = 0

CallMirrorTriangles ==
  /\ pc = "ready"
  /\ result' = MirrorTriangles(params.indexArray, 0, params.vertexToMirror,
                               params.indexArray, {})
  /\ pc' = "done"
  /\ calls' = calls + 1
  /\ UNCHANGED <<heap, pre, params>>

NextMirror == CallMirrorTriangles

SpecMirror == InitMirror /\ [][NextMirror]_vars

\* triangle f of an index array, as its three indices
TriangleAt(indices, f) ==
  <<indices[3 * f + 1], indices[3 * f + 2], indices[3 * f + 3]>>

\* the mirror indices m0, m1, m2 of input triangle f
MirrorOf(f) ==
  LET tri == TriangleAt(params.indexArray, f)
  IN <<params.vertexToMirror[tri[1]], params.vertexToMirror[tri[2]],
       params.vertexToMirror[tri[3]]>>

\* two triples with the same three indices, in any order
SameCorners(a, b) ==
  \A v \in Range(a) \cup Range(b) :
    Cardinality({k \in 1..3 : a[k] = v}) = Cardinality({k \in 1..3 : b[k] = v})

\* C26: for every input triangle with a vertex whose mirror index is not
\* the vertex, the output has a triangle on the mirror indices; an inserted
\* triangle is (m0, m2, m1) of such a triangle; none is inserted when a
\* triangle on the same indices, in any order, is already there; every
\* index is smaller than the number of output vertices.
C26_MirrorTrianglesOnce ==
  pc = "done" =>
    LET in == Triangles(params.indexArray)
        out == Triangles(result)
        count == Cardinality(DOMAIN params.vertexToMirror)
    IN /\ Len(result) = 3 * out
       /\ \A f \in 0..(in - 1) :
            /\ TriangleAt(result, f) = TriangleAt(params.indexArray, f)
            /\ MirrorOf(f) # TriangleAt(params.indexArray, f) =>
                 \E g \in 0..(out - 1) :
                   SameCorners(TriangleAt(result, g), MirrorOf(f))
       /\ \A g \in in..(out - 1) :
            /\ \E f \in 0..(in - 1) :
                 /\ MirrorOf(f) # TriangleAt(params.indexArray, f)
                 /\ TriangleAt(result, g)
                      = <<MirrorOf(f)[1], MirrorOf(f)[3], MirrorOf(f)[2]>>
            /\ \A h \in 0..(g - 1) :
                 ~SameCorners(TriangleAt(result, h), TriangleAt(result, g))
       /\ \A k \in DOMAIN result : result[k] >= 0 /\ result[k] < count

\* two triangles of which the second is the mirror of the first, and a
\* vertex created for a vertex of neither: nothing is inserted
C26_Witness ==
  /\ pc = "done"
  /\ Triangles(params.indexArray) = 2
  /\ MirrorOf(0) # TriangleAt(params.indexArray, 0)
  /\ Cardinality(Range(TriangleAt(params.indexArray, 0))) = 3
  /\ SameCorners(MirrorOf(0), TriangleAt(params.indexArray, 1))
  /\ ~SameCorners(TriangleAt(params.indexArray, 0),
                  TriangleAt(params.indexArray, 1))
  /\ result = params.indexArray

(***************************************************************************)
(* SpecUndo: useSceneUndo (toolDefinitions.ts 160-346) for a scene of one  *)
(* object.  heap holds the contents of the BufferGeometry objects, by      *)
(* reference: a number that every stroke changes.  params holds            *)
(* maxHistorySize, history (every entry the reference of its geometry and, *)
(* for the properties below, the contents that geometry had when it was    *)
(* stored), currentIndex and objectGeometries, the reference of the live   *)
(* geometry of the object.  pc names the operation applied last, pre is    *)
(* params before it, result tells whether an undo or redo did anything,    *)
(* calls counts the operations.                                            *)
(***************************************************************************)
\* mutant: the geometry itself instead of a clone
CloneGeometryAliased(h, geometry) == [heap |-> h, geometry |-> geometry]

\* geometry.clone(): a new object with the same contents
CloneGeometry(h, geometry) ==
  [heap |-> Append(h, h[geometry]), geometry |-> Len(h) + 1]

\* lines 184-187: the states after the current index are removed
DiscardRedo(history, currentIndex) ==
  IF currentIndex < Len(history) - 1
    THEN SubSeq(history, 1, currentIndex + 1)
  ELSE history

\* mutant: the history is never shortened
LimitHistoryUnlimited(history, currentIndex, maxHistorySize) ==
  [history |-> history, currentIndex |-> Len(history) - 1]

\* lines 196-201: over the limit the oldest state is shifted out and the
\* index stays; else the index is the last state
LimitHistory(history, currentIndex, maxHistorySize) ==
  IF Len(history) > maxHistorySize
    THEN [history |-> Tail(history), currentIndex |-> currentIndex]
  ELSE [history |-> history, currentIndex |-> Len(history) - 1]

\* lines 176-203 with saveCurrentState (206-212)
saveState(h, u) ==
  LET cloned == CloneGeometry(h, u.objectGeometries)
      pushed == Append(DiscardRedo(u.history, u.currentIndex),
                       [geometry |-> cloned.geometry,
                        stored |-> h[u.objectGeometries]])
      limited == LimitHistory(pushed, u.currentIndex, u.maxHistorySize)
  IN [heap |-> cloned.heap,
      undo |-> [u EXCEPT !.history = limited.history,
                         !.currentIndex = limited.currentIndex]]

\* lines 222-243 and 251-272: the state at newIndex is restored, its
\* geometry as a clone
Restore(h, u, newIndex) ==
  LET cloned == CloneGeometry(h, At(u.history, newIndex).geometry)
  IN [heap |-> cloned.heap,
      undo |-> [u EXCEPT !.currentIndex = newIndex,
                         !.objectGeometries = cloned.geometry]]

InitUndo ==
  /\ pc = "mount"
  /\ heap = <<0>>
  /\ \E maxHistorySize \in 1..MaxHistory :
       params = [maxHistorySize |-> maxHistorySize, history |-> <<>>,
                 currentIndex |-> -1, objectGeometries |-> 1]
  /\ pre = params
  /\ result = FALSE
  /\ calls = 0

SaveCurrentState ==
  /\ calls < MaxOps
  /\ \E r \in {saveState(heap, params)} :
       /\ heap' = r.heap
       /\ params' = r.undo
  /\ pc' = "saveState"
  /\ pre' = params
  /\ result' = TRUE
  /\ calls' = calls + 1

\* lines 220-246
HandleUndo ==
  /\ calls < MaxOps
  /\ IF params.currentIndex > 0
       THEN \E r \in {Restore(heap, params, params.currentIndex - 1)} :
              /\ heap' = r.heap
              /\ params' = r.undo
              /\ result' = TRUE
       ELSE /\ UNCHANGED <<heap, params>>
            /\ result' = FALSE
  /\ pc' = "handleUndo"
  /\ pre' = params
  /\ calls' = calls + 1

\* lines 249-275
HandleRedo ==
  /\ calls < MaxOps
  /\ IF params.currentIndex < Len(params.history) - 1
       THEN \E r \in {Restore(heap, params, params.currentIndex + 1)} :
              /\ heap' = r.heap
              /\ params' = r.undo
              /\ result' = TRUE
       ELSE /\ UNCHANGED <<heap, params>>
            /\ result' = FALSE
  /\ pc' = "handleRedo"
  /\ pre' = params
  /\ calls' = calls + 1

\* lines 329-333
ClearHistory ==
  /\ calls < MaxOps
  /\ params' = [params EXCEPT !.history = <<>>, !.currentIndex = -1]
  /\ pc' = "clearHistory"
  /\ pre' = params
  /\ result' = TRUE
  /\ calls' = calls + 1
  /\ UNCHANGED heap

\* a stroke on the live geometry: written in place, or (ModelingCanvas.tsx
\* 580-582) a new geometry that takes its place in objectGeometries
StrokeOnLive ==
  /\ calls < MaxOps
  /\ \E fresh \in BOOLEAN :
       IF fresh
         THEN /\ heap' = Append(heap, heap[params.objectGeometries] + 1)
              /\ params' = [params EXCEPT !.objectGeometries = Len(heap) + 1]
         ELSE /\ heap' = [heap EXCEPT ![params.objectGeometries] = @ + 1]
              /\ params' = params
  /\ pc' = "stroke"
  /\ pre' = params
  /\ result' = TRUE
  /\ calls' = calls + 1

NextUndo ==
  \/ SaveCurrentState
  \/ HandleUndo
  \/ HandleRedo
  \/ ClearHistory
  \/ StrokeOnLive

SpecUndo == InitUndo /\ [][NextUndo]_vars

\* C28: the history is never longer than maxHistorySize; currentIndex is -1
\* exactly when the history is empty and else between 0 and length - 1;
\* right after saveState currentIndex is length - 1.
C28_HistoryBounded ==
  /\ Len(params.history) <= params.maxHistorySize
  /\ params.currentIndex = -1 <=> params.history = <<>>
  /\ params.history # <<>> =>
       params.currentIndex \in 0..(Len(params.history) - 1)
  /\ pc = "saveState" => params.currentIndex = Len(params.history) - 1

\* a save after an undo, with the history full: the redo branch has gone
\* and the history is full again
C28_Witness ==
  /\ pc = "saveState"
  /\ params.maxHistorySize > 1
  /\ Len(pre.history) = pre.maxHistorySize
  /\ pre.currentIndex < Len(pre.history) - 1
  /\ Len(params.history) = pre.currentIndex + 2
  /\ params.currentIndex = Len(params.history) - 1

\* C29: no entry of the history shares its geometry with the live object
\* or with another entry, and every entry has the contents it was stored
\* with, whatever strokes came after; an undo or redo that did something
\* leaves a live geometry with the contents stored in the entry at
\* currentIndex.
C29_SnapshotsIsolated ==
  /\ \A i \in DOMAIN params.history :
       /\ heap[params.history[i].geometry] = params.history[i].stored
       /\ params.history[i].geometry # params.objectGeometries
       /\ \A j \in DOMAIN params.history :
            i # j => params.history[i].geometry # params.history[j].geometry
  /\ (pc \in {"handleUndo", "handleRedo"} /\ result) =>
       heap[params.objectGeometries]
         = At(params.history, params.currentIndex).stored

\* a redo after an undo, with a stroke written in place on the geometry the
\* undo handed out: the live geometry is again what was saved last
C29_Witness ==
  /\ pc = "handleRedo"
  /\ result
  /\ Len(params.history) = 2
  /\ params.currentIndex = 1
  /\ params.history[1].stored # params.history[2].stored
  /\ heap[params.objectGeometries] = params.history[2].stored
  /\ \E g \in DOMAIN heap :
       /\ g # params.history[1].geometry
       /\ g > params.history[2].geometry
       /\ heap[g] = params.history[1].stored + 1

====
